---- MODULE Spec2Model ----
(***************************************************************************)
(* State-machine model of the TROPIC01 functional model (ts-tvl):          *)
(* the L2 dispatcher of BaseModel, the secure-channel session, the        *)
(* access-control check (UAP), the configuration objects and the          *)
(* pairing-key slots.                                                      *)
(*                                                                         *)
(* Bytes are integers 0..255, byte strings are sequences of bytes.         *)
(* A raw L2 request is  REQ_ID | REQ_LEN | REQ_DATA | REQ_CRC(2),          *)
(* a raw L2 response is STATUS | RSP_LEN | RSP_DATA | RSP_CRC(2).          *)
(***************************************************************************)
EXTENDS Integers, Sequences, FiniteSets, TLC

VARIABLES
    activate_encryption,  \* BaseModel.activate_encryption
    session,              \* BaseModel.session (TropicEncryptedSession)
    pairing_key_slot,     \* BaseModel.pairing_key_slot
    i_pairing_keys,       \* BaseModel.i_pairing_keys
    i_config,             \* BaseModel.i_config
    r_config,             \* BaseModel.r_config
    config_cache,         \* BaseModel._config
    command_buffer,       \* BaseModel.command_buffer
    spi_fsm,              \* BaseModel.spi_fsm
    outcome,              \* what the last call returned or raised, with the
                          \* active slot before it (before)
    endianness,           \* tvl.messages.endianness.endianness._endianness
    heap,                 \* the python list objects: the caller's and the
                          \* ones the fields made
    fields,               \* two DataField objects: params and _value (a
                          \* list object or AUTO)
    call,                 \* the last call on a field and what it gave
    defined,              \* the model classes created so far
    registry,             \* the registry of the base method
                          \* process_l2_request: request type to method
    dispatched            \* the last request given to process_l2_request
                          \* and the method that ran

vars == <<activate_encryption, session, pairing_key_slot, i_pairing_keys,
          i_config, r_config, config_cache, command_buffer, spi_fsm, outcome,
          endianness, heap, fields, call, defined, registry, dispatched>>

(***************************************************************************)
(* Bounds of the model                                                     *)
(***************************************************************************)
\* highest value a session nonce may reach in the explored runs
MaxNonce == 2
\* the access-control check is explored on slots up to MaxSlotBeyond past
\* either end of 0 .. S_HI_PUB_NB_SLOTS - 1
MaxSlotBeyond == 2
\* register writes are explored on bit indices up to MaxBitBeyond past 31
MaxBitBeyond == 2
\* Get_Info is explored on block indices up to MaxBlockBeyond past the last
\* block of the certificate
MaxBlockBeyond == 2

(***************************************************************************)
(* Program constants                                                       *)
(***************************************************************************)
S_HI_PUB_NB_SLOTS == 4
ENCRYPTION_TAG_LEN == 16
CHUNK_SIZE == 128
KEY_SIZE == 32
U32_WIDTH == 32

None == "None"
BLANK == "BLANK"
INVALID == "INVALID"

(***************************************************************************)
(* Bytes and bits                                                          *)
(***************************************************************************)
Fill(n, v) == [i \in 1..n |-> v]

Pow2(k) == 2 ^ k

\* bit k of a non-negative integer
Bit(value, k) == (value \div Pow2(k)) % 2

RECURSIVE BitAnd(_, _)
BitAnd(a, b) ==
    IF a = 0 \/ b = 0 THEN 0
    ELSE (a % 2) * (b % 2) + 2 * BitAnd(a \div 2, b \div 2)

\* value & 2**k, as python computes it on non-negative integers
AndPow2(value, k) == BitAnd(value, Pow2(k))

\* the sum of s[lo..hi] modulo 256, by halves down to runs of four
RECURSIVE SumRange(_, _, _)
SumRange(s, lo, hi) ==
    IF lo > hi THEN 0
    ELSE IF hi - lo = 3 THEN (s[lo] + s[lo + 1] + s[lo + 2] + s[hi]) % 256
    ELSE IF hi - lo = 2 THEN (s[lo] + s[lo + 1] + s[hi]) % 256
    ELSE IF hi - lo = 1 THEN (s[lo] + s[hi]) % 256
    ELSE IF lo = hi THEN s[lo] % 256
    ELSE LET mid == (lo + hi) \div 2
         IN  (SumRange(s, lo, mid) + SumRange(s, mid + 1, hi)) % 256

SumSeq(s) == SumRange(s, 1, Len(s))

\* the 16-bit checksum that ends a frame, high byte first: the sum of the
\* running sums of the bytes, then the sum of the bytes, each modulo 256
Crc(s) ==
    <<SumSeq([i \in 1..Len(s) |-> ((Len(s) - i + 1) * s[i]) % 256]), SumSeq(s)>>

(***************************************************************************)
(* L2 messages                                                             *)
(***************************************************************************)
GET_INFO == 1
HANDSHAKE == 2
ENCRYPTED_CMD == 4
ENCRYPTED_SESSION_ABT == 8
RESEND == 16
SLEEP == 32
STARTUP == 179
MUTABLE_FW_UPDATE == 176
MUTABLE_FW_UPDATE_DATA == 177
GET_LOG == 162

\* the request ids of the registry
L2Enum == {GET_INFO, HANDSHAKE, ENCRYPTED_CMD, ENCRYPTED_SESSION_ABT, RESEND,
           SLEEP, STARTUP, MUTABLE_FW_UPDATE, MUTABLE_FW_UPDATE_DATA, GET_LOG}

\* bounds of the data field of each request, in bytes, from its datafields
ReqShape(id) ==
    CASE id = GET_INFO               -> [min |-> 2, max |-> 2]
      [] id = HANDSHAKE              -> [min |-> 33, max |-> 33]
      [] id = ENCRYPTED_CMD          -> [min |-> 1, max |-> 252]
      [] id = ENCRYPTED_SESSION_ABT  -> [min |-> 0, max |-> 0]
      [] id = RESEND                 -> [min |-> 0, max |-> 0]
      [] id = SLEEP                  -> [min |-> 1, max |-> 1]
      [] id = STARTUP                -> [min |-> 1, max |-> 1]
      [] id = MUTABLE_FW_UPDATE      -> [min |-> 104, max |-> 104]
      [] id = MUTABLE_FW_UPDATE_DATA -> [min |-> 38, max |-> 254]
      [] id = GET_LOG                -> [min |-> 0, max |-> 0]

L2StatusEnum == [REQ_OK |-> 1, CRC_ERR |-> 124, UNKNOWN_REQ |-> 126, GEN_ERR |-> 127]

StatusNames == DOMAIN L2StatusEnum

\* a raw request frame with a correct checksum
MkFrame(id, data) ==
    LET body == <<id, Len(data)>> \o data IN body \o Crc(body)

\* the same frame with its last checksum byte altered
BadCrc(frame) ==
    [frame EXCEPT ![Len(frame)] = (frame[Len(frame)] + 1) % 256]

ReqId(frame) == frame[1]
ReqData(frame) == SubSeq(frame, 3, Len(frame) - 2)
ReqCrc(frame) == SubSeq(frame, Len(frame) - 1, Len(frame))

\* L2Request.has_valid_crc
HasValidCrc(frame) == ReqCrc(frame) = Crc(SubSeq(frame, 1, Len(frame) - 2))

\* L2Request.instantiate_subclass: the name of the error it raises, or None
InstantiateSubclass(id, frame) ==
    IF id \notin L2Enum THEN "SubclassNotFoundError"
    ELSE IF Len(ReqData(frame)) < ReqShape(id).min
            \/ Len(ReqData(frame)) > ReqShape(id).max
         THEN "NoValidSubclassError"
         ELSE None

\* an L2 response before serialisation
L2Response(status, data) == [status |-> status, data |-> data]

\* L2Response.to_bytes
RspToBytes(rsp) ==
    LET body == <<L2StatusEnum[rsp.status], Len(rsp.data)>> \o rsp.data
    IN  body \o Crc(body)

(***************************************************************************)
(* Configuration objects: a register is the set of its bits that are 1     *)
(* (bit 0 is the least significant of the 32).                             *)
(***************************************************************************)
Registers == {"CFG_START_UP", "CFG_UAP_PAIRING_KEY_WRITE", "CFG_UAP_I_CONFIG_WRITE"}

\* ConfigObjectRegisterAddressEnum
RegisterAddress ==
    [CFG_START_UP |-> 0, CFG_UAP_PAIRING_KEY_WRITE |-> 32,
     CFG_UAP_I_CONFIG_WRITE |-> 64]

RegisterAt(address) == CHOOSE r \in Registers : RegisterAddress[r] = address

IsRegisterAddress(address) == \E r \in Registers : RegisterAddress[r] = address

AllBits == 0..(U32_WIDTH - 1)

\* ConfigurationObjectImpl.__and__: register by register, bit by bit
ConfigAnd(a, b) == [r \in Registers |-> a[r] \cap b[r]]

RECURSIVE FieldFrom(_, _, _, _)
FieldFrom(bits, lo, width, k) ==
    IF k >= width THEN 0
    ELSE (IF lo + k \in bits THEN Pow2(k) ELSE 0) + FieldFrom(bits, lo, width, k + 1)

\* the integer value of the field of `width` bits that starts at bit `lo`
FieldValue(bits, lo, width) == FieldFrom(bits, lo, width, 0)

(***************************************************************************)
(* The secure-channel session (TropicEncryptedSession)                     *)
(***************************************************************************)
\* TropicEncryptedSession.reset: keys zeroed, counters at their start
SessionReset ==
    [established |-> FALSE, k_cmd |-> 0, k_res |-> 0,
     nonce_cmd |-> 0, nonce_resp |-> 0]

\* TropicEncryptedSession.is_session_valid
IsSessionValid(s) == s.established

\* the chip's ephemeral public key for the ephemeral private key e_tpriv
EphemeralPub(e_tpriv) == Fill(KEY_SIZE, (9 * e_tpriv + 1) % 256)

\* the host-to-chip key derived from the two public keys and the ephemeral
\* secret: never 0; the chip-to-host key is the next (odd) number
DeriveKCmd(s_hpub, e_hpub, e_tpriv) ==
    2 * ((s_hpub[1] + 3 * e_hpub[1] + 5 * e_tpriv) % 100) + 2

DeriveKRes(s_hpub, e_hpub, e_tpriv) == DeriveKCmd(s_hpub, e_hpub, e_tpriv) + 1

\* the handshake authentication tag
AuthTag(s_hpub, e_hpub, e_tpriv) ==
    Fill(ENCRYPTION_TAG_LEN, (DeriveKCmd(s_hpub, e_hpub, e_tpriv) + 7 * e_tpriv) % 256)

\* TropicEncryptedSession.process_handshake_request: the session it leaves
ProcessHandshake(s_hpub, e_hpub, e_tpriv) ==
    [established |-> TRUE,
     k_cmd |-> DeriveKCmd(s_hpub, e_hpub, e_tpriv),
     k_res |-> DeriveKRes(s_hpub, e_hpub, e_tpriv),
     nonce_cmd |-> 0, nonce_resp |-> 0]

\* the AEAD: the ciphertext, then a tag bound to key, nonce and ciphertext
Tag(key, nonce, ct) ==
    <<key, nonce % 256, SumSeq(ct)>> \o Fill(ENCRYPTION_TAG_LEN - 3, 0)

Seal(key, nonce, plaintext) ==
    LET ct == [i \in 1..Len(plaintext) |-> (plaintext[i] + key + nonce) % 256]
    IN  ct \o Tag(key, nonce, ct)

\* the AEAD opened: [ok, bytes]; one failure for a short input and a bad tag
Open(key, nonce, sealed) ==
    LET n == Len(sealed) - ENCRYPTION_TAG_LEN
        ct == SubSeq(sealed, 1, n)
    IN  IF n < 0 \/ SubSeq(sealed, n + 1, Len(sealed)) # Tag(key, nonce, ct)
        THEN [ok |-> FALSE, bytes |-> <<>>]
        ELSE [ok |-> TRUE, bytes |-> [i \in 1..n |-> (ct[i] + 512 - key - nonce) % 256]]

\* TropicEncryptedSession.encrypt_response: [bytes, session]
SessionEncryptResponse(s, result) ==
    IF ~IsSessionValid(s) THEN [bytes |-> <<>>, session |-> s]
    ELSE [bytes |-> Seal(s.k_res, s.nonce_resp, result),
          session |-> [s EXCEPT !.nonce_resp = s.nonce_resp + 1]]

\* TropicEncryptedSession.decrypt_command: [ok, bytes, session]; ok = FALSE is None
SessionDecryptCommand(s, command) ==
    IF ~IsSessionValid(s) THEN [ok |-> FALSE, bytes |-> <<>>, session |-> s]
    ELSE LET o == Open(s.k_cmd, s.nonce_cmd, command)
         IN  IF o.ok
             THEN [ok |-> TRUE, bytes |-> o.bytes,
                   session |-> [s EXCEPT !.nonce_cmd = s.nonce_cmd + 1]]
             ELSE [ok |-> FALSE, bytes |-> <<>>, session |-> s]

(***************************************************************************)
(* BaseModel: the state as one record, and its methods                     *)
(***************************************************************************)
\* the mutable attributes of the model instance
Model ==
    [activate_encryption |-> activate_encryption,
     session |-> session,
     pairing_key_slot |-> pairing_key_slot,
     i_pairing_keys |-> i_pairing_keys,
     i_config |-> i_config,
     r_config |-> r_config,
     config_cache |-> config_cache,
     command_buffer |-> command_buffer,
     spi_fsm |-> spi_fsm]

\* SpiFsm as constructed and as SpiFsm.reset leaves it: idle, chip select
\* high, no byte received, no response pending, the busy schedule at its
\* start.  state is IDLE, RECEIVING, PROCESSING or SENDING; rx holds the
\* bytes received since the chip select went low; tx holds the response
\* frames not yet sent; busy is the next decision of the busy schedule
SpiFsmReset == [state |-> "IDLE", rx |-> <<>>, tx |-> <<>>, busy |-> 1]

NoConfig == [cached |-> FALSE, value |-> [r \in Registers |-> {}]]

\* BaseModel.config: the effective configuration, cached at the first access
Config(m) ==
    IF m.config_cache.cached THEN m.config_cache.value
    ELSE ConfigAnd(m.i_config, m.r_config)

\* the model after an access to BaseModel.config
AfterConfig(m) ==
    [m EXCEPT !.config_cache = [cached |-> TRUE, value |-> Config(m)]]

\* BaseModel.check_access_privileges: "ok", or the name of the error raised
\* the check with the slot range taken one too wide
CheckAccessPrivilegesOffByOne(m, value) ==
    IF ~m.activate_encryption THEN "ok"
    ELSE IF ~(0 <= m.pairing_key_slot /\ m.pairing_key_slot <= S_HI_PUB_NB_SLOTS)
         THEN "RuntimeError"
         ELSE IF AndPow2(value, m.pairing_key_slot) = 0
              THEN "L3ProcessingErrorUnauthorized"
              ELSE "ok"

\* the check without the early return of the disabled mode
CheckAccessPrivilegesAlways(m, value) ==
    IF ~(0 <= m.pairing_key_slot /\ m.pairing_key_slot < S_HI_PUB_NB_SLOTS)
    THEN "RuntimeError"
    ELSE IF AndPow2(value, m.pairing_key_slot) = 0
         THEN "L3ProcessingErrorUnauthorized"
         ELSE "ok"

CheckAccessPrivileges(m, value) ==
    IF ~m.activate_encryption THEN "ok"
    ELSE IF ~(0 <= m.pairing_key_slot /\ m.pairing_key_slot < S_HI_PUB_NB_SLOTS)
         THEN "RuntimeError"
         ELSE IF AndPow2(value, m.pairing_key_slot) = 0
              THEN "L3ProcessingErrorUnauthorized"
              ELSE "ok"

\* BaseModel.invalidate_session
\* invalidate_session leaving the active slot as it is
InvalidateSessionKeepsSlot(m) == [m EXCEPT !.session = SessionReset]

\* invalidate_session leaving the session as it is
InvalidateSessionKeepsSession(m) == [m EXCEPT !.pairing_key_slot = -1]

\* invalidate_session parking the active slot on slot 0
InvalidateSessionSlotZero(m) ==
    [m EXCEPT !.session = SessionReset, !.pairing_key_slot = 0]

InvalidateSession(m) ==
    [m EXCEPT !.session = SessionReset, !.pairing_key_slot = -1]

\* _process_power_off without the reset of the transport FSM
ProcessPowerOffKeepsFsm(m) ==
    [InvalidateSession(m) EXCEPT !.command_buffer = <<>>, !.config_cache = NoConfig]

\* _process_power_off without the reset of _config
ProcessPowerOffKeepsConfig(m) ==
    [InvalidateSession(m) EXCEPT !.command_buffer = <<>>, !.spi_fsm = SpiFsmReset]

\* _process_power_off without the reset of the command buffer
ProcessPowerOffKeepsBuffer(m) ==
    [InvalidateSession(m) EXCEPT !.spi_fsm = SpiFsmReset, !.config_cache = NoConfig]

\* _process_power_off erasing the pairing keys as well
ProcessPowerOffErasesKeys(m) ==
    [InvalidateSession(m) EXCEPT !.command_buffer = <<>>,
                                 !.spi_fsm = SpiFsmReset,
                                 !.config_cache = NoConfig,
                                 !.i_pairing_keys = [k \in DOMAIN @ |-> [kind |-> BLANK, value |-> <<>>]]]

\* _process_power_off leaving the model with encryption disabled
ProcessPowerOffDisablesEncryption(m) ==
    [InvalidateSession(m) EXCEPT !.command_buffer = <<>>,
                                 !.spi_fsm = SpiFsmReset,
                                 !.config_cache = NoConfig,
                                 !.activate_encryption = FALSE]

\* a power-off that drops the session itself and leaves the active slot
ProcessPowerOffKeepsSlot(m) ==
    [m EXCEPT !.session = SessionReset, !.command_buffer = <<>>,
              !.spi_fsm = SpiFsmReset, !.config_cache = NoConfig]

\* BaseModel._process_power_off
ProcessPowerOff(m) ==
    [InvalidateSession(m) EXCEPT !.command_buffer = <<>>,
                                 !.spi_fsm = SpiFsmReset,
                                 !.config_cache = NoConfig]

\* encrypt_result with a placeholder tag one byte short
EncryptResultShortTag(m, result) ==
    IF m.activate_encryption
    THEN LET e == SessionEncryptResponse(m.session, result)
         IN  [bytes |-> e.bytes, m |-> [m EXCEPT !.session = e.session]]
    ELSE [bytes |-> result \o Fill(ENCRYPTION_TAG_LEN - 1, 0), m |-> m]

\* encrypt_result dropping the session that encrypt_response leaves
EncryptResultKeepsNonce(m, result) ==
    IF m.activate_encryption
    THEN LET e == SessionEncryptResponse(m.session, result)
         IN  [bytes |-> e.bytes, m |-> m]
    ELSE [bytes |-> result \o Fill(ENCRYPTION_TAG_LEN, 0), m |-> m]

\* BaseModel.encrypt_result: [bytes, m]
EncryptResult(m, result) ==
    IF m.activate_encryption
    THEN LET e == SessionEncryptResponse(m.session, result)
         IN  [bytes |-> e.bytes, m |-> [m EXCEPT !.session = e.session]]
    ELSE [bytes |-> result \o Fill(ENCRYPTION_TAG_LEN, 0), m |-> m]

\* BaseModel.decrypt_command: [ok, bytes, m]; ok = FALSE is the None result
\* decrypt_command taking the pass-through branch whatever the mode
DecryptCommandPassThrough(m, command) ==
    [ok |-> TRUE,
     bytes |-> SubSeq(command, 1, Len(command) - ENCRYPTION_TAG_LEN),
     m |-> m]

\* decrypt_command giving what it received, less the tag, when the session
\* gives nothing
DecryptCommandIgnoresFailure(m, command) ==
    IF m.activate_encryption
    THEN LET d == SessionDecryptCommand(m.session, command)
         IN  [ok |-> TRUE,
              bytes |-> IF d.ok THEN d.bytes
                        ELSE SubSeq(command, 1, Len(command) - ENCRYPTION_TAG_LEN),
              m |-> [m EXCEPT !.session = d.session]]
    ELSE [ok |-> TRUE,
          bytes |-> SubSeq(command, 1, Len(command) - ENCRYPTION_TAG_LEN),
          m |-> m]

DecryptCommand(m, command) ==
    IF m.activate_encryption
    THEN LET d == SessionDecryptCommand(m.session, command)
         IN  [ok |-> d.ok, bytes |-> d.bytes, m |-> [m EXCEPT !.session = d.session]]
    ELSE [ok |-> TRUE,
          bytes |-> SubSeq(command, 1, Len(command) - ENCRYPTION_TAG_LEN),
          m |-> m]

(***************************************************************************)
(* L3 commands (carried, sealed, in the l3_chunk of Encrypted_Cmd)         *)
(***************************************************************************)
L3Enum == [PING |-> 1, PAIRING_KEY_WRITE |-> 16, I_CONFIG_WRITE |-> 48]

L3ResultFieldEnum == [OK |-> 195, FAIL |-> 60, UNAUTHORIZED |-> 1, INVALID_CMD |-> 2]

\* a 16-bit little-endian field
U16(lo, hi) == lo + 256 * hi

\* an L3 result: the raw result (none when an error escapes), the model it
\* leaves, the error that escapes (None when the command returned) and the
\* command that ran
L3Out(code, m, exc, name) ==
    [result |-> IF exc = None THEN <<L3ResultFieldEnum[code]>> ELSE <<>>,
     m |-> m, exc |-> exc, name |-> name]

\* a pairing-key slot: BLANK, a written key, or INVALID
SlotSet(value) == [kind |-> "SET", value |-> value]
SlotBlank == [kind |-> BLANK, value |-> <<>>]
SlotInvalid == [kind |-> INVALID, value |-> <<>>]

\* I_Config_Write taking bit index 32 for a bit of the register
IConfigWriteBitOffByOne(m, data) ==
    LET address == U16(data[1], data[2])
        bit_index == data[3]
        m1 == AfterConfig(m)
        access == CheckAccessPrivileges(
                      m1, FieldValue(Config(m)["CFG_UAP_I_CONFIG_WRITE"], 0, 8))
    IN  IF access = "RuntimeError" THEN L3Out("FAIL", m1, access, "i_config_write")
        ELSE IF access # "ok" THEN L3Out("UNAUTHORIZED", m1, None, "i_config_write")
        ELSE IF ~IsRegisterAddress(address) \/ bit_index > U32_WIDTH
             THEN L3Out("FAIL", m1, None, "i_config_write")
             ELSE L3Out("OK",
                        [m1 EXCEPT !.i_config[RegisterAt(address)] = @ \ {bit_index},
                                   !.config_cache = NoConfig],
                        None, "i_config_write")

\* I_Config_Write taking an unknown address for the first register
IConfigWriteAnyAddress(m, data) ==
    LET address == U16(data[1], data[2])
        bit_index == data[3]
        m1 == AfterConfig(m)
        register == IF IsRegisterAddress(address) THEN RegisterAt(address)
                    ELSE "CFG_START_UP"
        access == CheckAccessPrivileges(
                      m1, FieldValue(Config(m)["CFG_UAP_I_CONFIG_WRITE"], 0, 8))
    IN  IF access = "RuntimeError" THEN L3Out("FAIL", m1, access, "i_config_write")
        ELSE IF access # "ok" THEN L3Out("UNAUTHORIZED", m1, None, "i_config_write")
        ELSE IF bit_index >= U32_WIDTH
             THEN L3Out("FAIL", m1, None, "i_config_write")
             ELSE L3Out("OK",
                        [m1 EXCEPT !.i_config[register] = @ \ {bit_index},
                                   !.config_cache = NoConfig],
                        None, "i_config_write")

\* I_Config_Write clearing the bit of the reversible copy
IConfigWriteReversible(m, data) ==
    LET address == U16(data[1], data[2])
        bit_index == data[3]
        m1 == AfterConfig(m)
        access == CheckAccessPrivileges(
                      m1, FieldValue(Config(m)["CFG_UAP_I_CONFIG_WRITE"], 0, 8))
    IN  IF access = "RuntimeError" THEN L3Out("FAIL", m1, access, "i_config_write")
        ELSE IF access # "ok" THEN L3Out("UNAUTHORIZED", m1, None, "i_config_write")
        ELSE IF ~IsRegisterAddress(address) \/ bit_index >= U32_WIDTH
             THEN L3Out("FAIL", m1, None, "i_config_write")
             ELSE L3Out("OK",
                        [m1 EXCEPT !.r_config[RegisterAt(address)] = @ \ {bit_index},
                                   !.config_cache = NoConfig],
                        None, "i_config_write")

\* I_Config_Write inverting the bit
IConfigWriteToggles(m, data) ==
    LET address == U16(data[1], data[2])
        bit_index == data[3]
        m1 == AfterConfig(m)
        access == CheckAccessPrivileges(
                      m1, FieldValue(Config(m)["CFG_UAP_I_CONFIG_WRITE"], 0, 8))
    IN  IF access = "RuntimeError" THEN L3Out("FAIL", m1, access, "i_config_write")
        ELSE IF access # "ok" THEN L3Out("UNAUTHORIZED", m1, None, "i_config_write")
        ELSE IF ~IsRegisterAddress(address) \/ bit_index >= U32_WIDTH
             THEN L3Out("FAIL", m1, None, "i_config_write")
             ELSE L3Out("OK",
                        [m1 EXCEPT !.i_config[RegisterAt(address)] =
                             IF bit_index \in @ THEN @ \ {bit_index}
                             ELSE @ \cup {bit_index},
                                   !.config_cache = NoConfig],
                        None, "i_config_write")

\* I_Config_Write keeping the cached effective configuration after the write
IConfigWriteKeepsCache(m, data) ==
    LET address == U16(data[1], data[2])
        bit_index == data[3]
        m1 == AfterConfig(m)
        access == CheckAccessPrivileges(
                      m1, FieldValue(Config(m)["CFG_UAP_I_CONFIG_WRITE"], 0, 8))
    IN  IF access = "RuntimeError" THEN L3Out("FAIL", m1, access, "i_config_write")
        ELSE IF access # "ok" THEN L3Out("UNAUTHORIZED", m1, None, "i_config_write")
        ELSE IF ~IsRegisterAddress(address) \/ bit_index >= U32_WIDTH
             THEN L3Out("FAIL", m1, None, "i_config_write")
             ELSE L3Out("OK",
                        [m1 EXCEPT !.i_config[RegisterAt(address)] = @ \ {bit_index}],
                        None, "i_config_write")

\* I_Config_Write(address, bit_index). The handler is not part of the
\* sources at hand and follows the specification: the access check on
\* CFG_UAP_I_CONFIG_WRITE comes before the configuration store is touched
\* (sections 2 and 4.6), the store refuses an address outside the
\* enumeration and a bit index outside 0..31 with no effect, and a write
\* that goes through invalidates the cached effective configuration
\* (section 4.7), which is the one object of base_model.py:175. The copy the
\* write clears is i_config, as test_i_config_write.py:57-74 reads it back
IConfigWrite(m, data) ==
    LET address == U16(data[1], data[2])
        bit_index == data[3]
        m1 == AfterConfig(m)
        access == CheckAccessPrivileges(
                      m1, FieldValue(Config(m)["CFG_UAP_I_CONFIG_WRITE"], 0, 8))
    IN  IF access = "RuntimeError" THEN L3Out("FAIL", m1, access, "i_config_write")
        ELSE IF access # "ok" THEN L3Out("UNAUTHORIZED", m1, None, "i_config_write")
        ELSE IF ~IsRegisterAddress(address) \/ bit_index >= U32_WIDTH
             THEN L3Out("FAIL", m1, None, "i_config_write")
             ELSE L3Out("OK",
                        [m1 EXCEPT !.i_config[RegisterAt(address)] = @ \ {bit_index},
                                   !.config_cache = NoConfig],
                        None, "i_config_write")

\* Pairing_Key_Write replacing the key of a slot that holds one
PairingKeyWriteOverwrites(m, data) ==
    LET slot == U16(data[1], data[2])
        key == SubSeq(data, 4, 3 + KEY_SIZE)
        m1 == AfterConfig(m)
    IN  IF slot >= S_HI_PUB_NB_SLOTS
        THEN L3Out("UNAUTHORIZED", m, None, "pairing_key_write")
        ELSE LET access == CheckAccessPrivileges(
                     m1, FieldValue(Config(m)["CFG_UAP_PAIRING_KEY_WRITE"], 8 * slot, 8))
                 old == m.i_pairing_keys[slot]
             IN  IF access = "RuntimeError"
                 THEN L3Out("FAIL", m1, access, "pairing_key_write")
                 ELSE IF access # "ok"
                 THEN L3Out("UNAUTHORIZED", m1, None, "pairing_key_write")
                 ELSE IF old.kind = INVALID
                 THEN L3Out("FAIL", m1, None, "pairing_key_write")
                 ELSE L3Out("OK", [m1 EXCEPT !.i_pairing_keys[slot] = SlotSet(key)],
                            None, "pairing_key_write")

\* Pairing_Key_Write answering FAIL for a slot index out of range
PairingKeyWriteFailsOutOfRange(m, data) ==
    LET slot == U16(data[1], data[2])
        key == SubSeq(data, 4, 3 + KEY_SIZE)
        m1 == AfterConfig(m)
    IN  IF slot >= S_HI_PUB_NB_SLOTS
        THEN L3Out("FAIL", m, None, "pairing_key_write")
        ELSE LET access == CheckAccessPrivileges(
                     m1, FieldValue(Config(m)["CFG_UAP_PAIRING_KEY_WRITE"], 8 * slot, 8))
                 old == m.i_pairing_keys[slot]
             IN  IF access = "RuntimeError"
                 THEN L3Out("FAIL", m1, access, "pairing_key_write")
                 ELSE IF access # "ok"
                 THEN L3Out("UNAUTHORIZED", m1, None, "pairing_key_write")
                 ELSE IF old.kind = INVALID
                 THEN L3Out("FAIL", m1, None, "pairing_key_write")
                 ELSE IF old.kind = BLANK
                 THEN L3Out("OK", [m1 EXCEPT !.i_pairing_keys[slot] = SlotSet(key)],
                            None, "pairing_key_write")
                 ELSE L3Out("OK",
                            [m1 EXCEPT !.i_pairing_keys[slot] =
                                 SlotSet([i \in 1..KEY_SIZE |-> BitAnd(old.value[i], key[i])])],
                            None, "pairing_key_write")

\* Pairing_Key_Write(slot, s_hipub): write the key of a pairing-key slot
PairingKeyWrite(m, data) ==
    LET slot == U16(data[1], data[2])
        key == SubSeq(data, 4, 3 + KEY_SIZE)
        m1 == AfterConfig(m)
    IN  IF slot >= S_HI_PUB_NB_SLOTS
        THEN L3Out("UNAUTHORIZED", m, None, "pairing_key_write")
        ELSE LET access == CheckAccessPrivileges(
                     m1, FieldValue(Config(m)["CFG_UAP_PAIRING_KEY_WRITE"], 8 * slot, 8))
                 old == m.i_pairing_keys[slot]
             IN  IF access = "RuntimeError"
                 THEN L3Out("FAIL", m1, access, "pairing_key_write")
                 ELSE IF access # "ok"
                 THEN L3Out("UNAUTHORIZED", m1, None, "pairing_key_write")
                 ELSE IF old.kind = INVALID
                 THEN L3Out("FAIL", m1, None, "pairing_key_write")
                 ELSE IF old.kind = BLANK
                 THEN L3Out("OK", [m1 EXCEPT !.i_pairing_keys[slot] = SlotSet(key)],
                            None, "pairing_key_write")
                 ELSE L3Out("OK",
                            [m1 EXCEPT !.i_pairing_keys[slot] =
                                 SlotSet([i \in 1..KEY_SIZE |-> BitAnd(old.value[i], key[i])])],
                            None, "pairing_key_write")

\* Ping(data_in): the result carries data_in back; the privileges of Ping
\* are in a register the runs never write, so that its field reads as erased
Ping(m, data) ==
    LET m1 == AfterConfig(m)
        access == CheckAccessPrivileges(m1, FieldValue(AllBits, 0, 8))
    IN  IF access = "RuntimeError" THEN L3Out("FAIL", m1, access, "ping")
        ELSE IF access # "ok" THEN L3Out("UNAUTHORIZED", m1, None, "ping")
        ELSE [L3Out("OK", m1, None, "ping") EXCEPT !.result = @ \o data]

\* BaseModel.process_l3_command with the handlers of the model class; a
\* command no handler is registered for raises NotImplementedError and gives
\* no result
ProcessL3Command(m, command) ==
    IF Len(command) >= 1 /\ command[1] = L3Enum.PING
    THEN Ping(m, SubSeq(command, 2, Len(command)))
    ELSE IF Len(command) = 4 /\ command[1] = L3Enum.I_CONFIG_WRITE
    THEN IConfigWrite(m, SubSeq(command, 2, Len(command)))
    ELSE IF Len(command) = 4 + KEY_SIZE /\ command[1] = L3Enum.PAIRING_KEY_WRITE
    THEN PairingKeyWrite(m, SubSeq(command, 2, Len(command)))
    ELSE [result |-> <<>>, m |-> m, exc |-> "NotImplementedError", name |-> None]

(***************************************************************************)
(* L2 request handlers.  A handler gives                                   *)
(*   kind    "return" or "raise"                                           *)
(*   exc     the exception raised (None when it returns)                   *)
(*   status  the status an L2ProcessingError carries                       *)
(*   rsps    the responses returned, is_list when they come as a list      *)
(*   m       the model the call leaves                                     *)
(*   handler the handler that ran, l3 the L3 command that ran              *)
(*   caught  the status of the L2ProcessingError the dispatcher caught     *)
(*   command the L3 command that ran, in clear, l3_result its raw result   *)
(***************************************************************************)
Return(rsps, is_list, m, handler, l3) ==
    [kind |-> "return", exc |-> None, status |-> None, rsps |-> rsps,
     is_list |-> is_list, m |-> m, handler |-> handler, l3 |-> l3, caught |-> None,
     command |-> <<>>, l3_result |-> <<>>]

Raise(exc, status, m, handler, l3) ==
    [kind |-> "raise", exc |-> exc, status |-> status, rsps |-> <<>>,
     is_list |-> FALSE, m |-> m, handler |-> handler, l3 |-> l3, caught |-> None,
     command |-> <<>>, l3_result |-> <<>>]

\* the objects Get_Info serves
X509_CERTIFICATE == [i \in 1..(4 * CHUNK_SIZE) |-> i % 256]
CHIP_ID == [i \in 1..CHUNK_SIZE |-> (3 * i) % 256]
RISCV_FW_VERSION == <<1, 2, 3, 4>>
SPECT_FW_VERSION == <<5, 6, 7, 8>>

\* TsL2GetInfoRequest.ObjectIdEnum
ObjectIdEnum == [X509_CERTIFICATE |-> 0, CHIP_ID |-> 1, RISCV_FW_VERSION |-> 2,
                 SPECT_FW_VERSION |-> 4, FW_BANK |-> 176]

\* python's data[lo:hi] on a byte string (0-based, hi excluded, clipped)
Slice(data, lo, hi) ==
    SubSeq(data, lo + 1, IF hi > Len(data) THEN Len(data) ELSE hi)

\* ts_l2_get_info cutting the blocks of the certificate one byte late
TsL2GetInfoShifted(m, data) ==
    LET object_id == data[1]
        block_index == data[2]
        chunk == Slice(X509_CERTIFICATE, CHUNK_SIZE * block_index + 1,
                       CHUNK_SIZE * (block_index + 1) + 1)
    IN  IF object_id = ObjectIdEnum.X509_CERTIFICATE
        THEN IF chunk = <<>>
             THEN Raise("L2ProcessingError", "GEN_ERR", m, "ts_l2_get_info", None)
             ELSE Return(<<L2Response("REQ_OK", chunk)>>, FALSE, m, "ts_l2_get_info", None)
        ELSE IF object_id = ObjectIdEnum.CHIP_ID
        THEN Return(<<L2Response("REQ_OK", CHIP_ID)>>, FALSE, m, "ts_l2_get_info", None)
        ELSE IF object_id = ObjectIdEnum.RISCV_FW_VERSION
        THEN Return(<<L2Response("REQ_OK", RISCV_FW_VERSION)>>, FALSE, m,
                    "ts_l2_get_info", None)
        ELSE IF object_id = ObjectIdEnum.SPECT_FW_VERSION
        THEN Return(<<L2Response("REQ_OK", SPECT_FW_VERSION)>>, FALSE, m,
                    "ts_l2_get_info", None)
        ELSE Raise("L2ProcessingError", "GEN_ERR", m, "ts_l2_get_info", None)

\* ts_l2_get_info answering a block past the certificate with its last block
TsL2GetInfoClipped(m, data) ==
    LET object_id == data[1]
        block_index == IF CHUNK_SIZE * data[2] >= Len(X509_CERTIFICATE)
                       THEN (Len(X509_CERTIFICATE) \div CHUNK_SIZE) - 1 ELSE data[2]
        chunk == Slice(X509_CERTIFICATE, CHUNK_SIZE * block_index,
                       CHUNK_SIZE * (block_index + 1))
    IN  IF object_id = ObjectIdEnum.X509_CERTIFICATE
        THEN IF chunk = <<>>
             THEN Raise("L2ProcessingError", "GEN_ERR", m, "ts_l2_get_info", None)
             ELSE Return(<<L2Response("REQ_OK", chunk)>>, FALSE, m, "ts_l2_get_info", None)
        ELSE IF object_id = ObjectIdEnum.CHIP_ID
        THEN Return(<<L2Response("REQ_OK", CHIP_ID)>>, FALSE, m, "ts_l2_get_info", None)
        ELSE IF object_id = ObjectIdEnum.RISCV_FW_VERSION
        THEN Return(<<L2Response("REQ_OK", RISCV_FW_VERSION)>>, FALSE, m,
                    "ts_l2_get_info", None)
        ELSE IF object_id = ObjectIdEnum.SPECT_FW_VERSION
        THEN Return(<<L2Response("REQ_OK", SPECT_FW_VERSION)>>, FALSE, m,
                    "ts_l2_get_info", None)
        ELSE Raise("L2ProcessingError", "GEN_ERR", m, "ts_l2_get_info", None)

\* L2API.ts_l2_get_info as the model class implements it
TsL2GetInfo(m, data) ==
    LET object_id == data[1]
        block_index == data[2]
        chunk == Slice(X509_CERTIFICATE, CHUNK_SIZE * block_index,
                       CHUNK_SIZE * (block_index + 1))
    IN  IF object_id = ObjectIdEnum.X509_CERTIFICATE
        THEN IF chunk = <<>>
             THEN Raise("L2ProcessingError", "GEN_ERR", m, "ts_l2_get_info", None)
             ELSE Return(<<L2Response("REQ_OK", chunk)>>, FALSE, m, "ts_l2_get_info", None)
        ELSE IF object_id = ObjectIdEnum.CHIP_ID
        THEN Return(<<L2Response("REQ_OK", CHIP_ID)>>, FALSE, m, "ts_l2_get_info", None)
        ELSE IF object_id = ObjectIdEnum.RISCV_FW_VERSION
        THEN Return(<<L2Response("REQ_OK", RISCV_FW_VERSION)>>, FALSE, m,
                    "ts_l2_get_info", None)
        ELSE IF object_id = ObjectIdEnum.SPECT_FW_VERSION
        THEN Return(<<L2Response("REQ_OK", SPECT_FW_VERSION)>>, FALSE, m,
                    "ts_l2_get_info", None)
        ELSE Raise("L2ProcessingError", "GEN_ERR", m, "ts_l2_get_info", None)

\* whether a handshake naming slot pkey_index can be verified
HandshakeVerifies(m, pkey_index) ==
    /\ pkey_index < S_HI_PUB_NB_SLOTS
    /\ m.i_pairing_keys[pkey_index].kind = "SET"

\* L2API.ts_l2_handshake as the model class implements it; e_tpriv is the
\* ephemeral secret drawn from the random source
TsL2Handshake(m, data, e_tpriv) ==
    LET e_hpub == SubSeq(data, 1, KEY_SIZE)
        pkey_index == data[KEY_SIZE + 1]
        m1 == InvalidateSession(m)
    IN  IF ~HandshakeVerifies(m1, pkey_index)
        THEN Raise("L2ProcessingError", "GEN_ERR", m1, "ts_l2_handshake", None)
        ELSE LET s_hpub == m1.i_pairing_keys[pkey_index].value
             IN  Return(<<L2Response("REQ_OK",
                                     EphemeralPub(e_tpriv) \o AuthTag(s_hpub, e_hpub, e_tpriv))>>,
                        FALSE,
                        [m1 EXCEPT !.session = ProcessHandshake(s_hpub, e_hpub, e_tpriv),
                                   !.pairing_key_slot = pkey_index],
                        "ts_l2_handshake", None)

RECURSIVE Chunked(_, _)
Chunked(data, size) ==
    IF Len(data) <= size THEN <<data>>
    ELSE <<SubSeq(data, 1, size)>> \o Chunked(SubSeq(data, size + 1, Len(data)), size)

\* split_data: the chunks of at most CHUNK_SIZE bytes, in order
SplitData(data) == IF data = <<>> THEN <<>> ELSE Chunked(data, CHUNK_SIZE)

\* an L3 packet: the size of the sealed part without its tag, then the sealed part
L3Packet(sealed) ==
    LET n == Len(sealed) - ENCRYPTION_TAG_LEN
    IN  <<n % 256, n \div 256>> \o sealed

\* L2API.ts_l2_encrypted_cmd as the model class implements it: the command
\* is decrypted and parsed, and only a command that parses is handed to
\* process_l3_command; one that does not is answered with INVALID_CMD
TsL2EncryptedCmd(m, data) ==
    IF m.activate_encryption /\ ~IsSessionValid(m.session)
    THEN Raise("L2ProcessingError", "GEN_ERR", m, "ts_l2_encrypted_cmd", None)
    ELSE LET Responses(d, l3, e, chunks) ==
                 [Return([i \in 1..Len(chunks) |-> L2Response("REQ_OK", chunks[i])],
                         TRUE, e.m, "ts_l2_encrypted_cmd", l3.name)
                      EXCEPT !.command = d.bytes, !.l3_result = l3.result]
             Encrypted(d, l3, e) == Responses(d, l3, e, SplitData(L3Packet(e.bytes)))
             Processed(d, l3) ==
                 IF l3.exc # None
                 THEN [Raise(l3.exc, None, l3.m, "ts_l2_encrypted_cmd", l3.name)
                           EXCEPT !.command = d.bytes]
                 ELSE Encrypted(d, l3, EncryptResult(l3.m, l3.result))
             Parses(c) ==
                 /\ Len(c) >= 1
                 /\ \/ c[1] = L3Enum.PING
                    \/ c[1] = L3Enum.I_CONFIG_WRITE /\ Len(c) = 4
                    \/ c[1] = L3Enum.PAIRING_KEY_WRITE /\ Len(c) = 4 + KEY_SIZE
             Decrypted(d) ==
                 IF ~d.ok
                 THEN Raise("L2ProcessingError", "GEN_ERR", d.m, "ts_l2_encrypted_cmd", None)
                 ELSE IF ~Parses(d.bytes)
                 THEN Processed(d, L3Out("INVALID_CMD", d.m, None, None))
                 ELSE Processed(d, ProcessL3Command(d.m, d.bytes))
         IN  Decrypted(DecryptCommand(m, SubSeq(data, 3, Len(data))))

\* L2API.ts_l2_encrypted_session_abt as the model class implements it
TsL2EncryptedSessionAbt(m) ==
    Return(<<L2Response("REQ_OK", <<>>)>>, FALSE, InvalidateSession(m),
           "ts_l2_encrypted_session_abt", None)

\* L2Response.from_bytes
RspFromBytes(raw) ==
    [status |-> CHOOSE n \in StatusNames : L2StatusEnum[n] = raw[1],
     data |-> SubSeq(raw, 3, Len(raw) - 2)]

\* L2API.ts_l2_resend as the model class implements it
TsL2Resend(m) ==
    IF m.command_buffer = <<>>
    THEN Raise("L2ProcessingError", "GEN_ERR", m, "ts_l2_resend", None)
    ELSE Return([i \in 1..Len(m.command_buffer) |-> RspFromBytes(m.command_buffer[i])],
                Len(m.command_buffer) > 1, m, "ts_l2_resend", None)

\* the handlers L2API leaves unimplemented
NotImplemented(m, handler) == Raise("NotImplementedError", None, m, handler, None)

\* BaseModel.process_l2_request: dispatch on the type of the request
ProcessL2Request(m, id, data, e_tpriv) ==
    CASE id = GET_INFO               -> TsL2GetInfo(m, data)
      [] id = HANDSHAKE              -> TsL2Handshake(m, data, e_tpriv)
      [] id = ENCRYPTED_CMD          -> TsL2EncryptedCmd(m, data)
      [] id = ENCRYPTED_SESSION_ABT  -> TsL2EncryptedSessionAbt(m)
      [] id = RESEND                 -> TsL2Resend(m)
      [] id = SLEEP                  -> NotImplemented(m, "ts_l2_sleep")
      [] id = STARTUP                -> NotImplemented(m, "ts_l2_startup")
      [] id = MUTABLE_FW_UPDATE      -> NotImplemented(m, "ts_l2_mutable_fw_update")
      [] id = MUTABLE_FW_UPDATE_DATA -> NotImplemented(m, "ts_l2_mutable_fw_update_data")
      [] id = GET_LOG                -> NotImplemented(m, "ts_l2_get_log")
      [] OTHER                       -> NotImplemented(m, "process_l2_request")

\* the error of the handler, as _process_input lets it through or answers it
\* the except clause answering every caught error with CRC_ERR
CatchL2ProcessingErrorWrongStatus(h) ==
    IF h.kind = "raise" /\ h.exc = "L2ProcessingError"
    THEN [Return(<<L2Response("CRC_ERR", <<>>)>>, FALSE, h.m, h.handler, h.l3)
              EXCEPT !.caught = h.status]
    ELSE h

\* the except clause of _process_input, around the handler's outcome h
CatchL2ProcessingError(h) ==
    IF h.kind = "raise" /\ h.exc = "L2ProcessingError"
    THEN [Return(<<L2Response(h.status, <<>>)>>, FALSE, h.m, h.handler, h.l3)
              EXCEPT !.caught = h.status]
    ELSE h

\* _process_input without the try/except around the handler
ProcessInputInnerNoExcept(m, frame, e_tpriv) ==
    IF ~HasValidCrc(frame)
    THEN Return(<<L2Response("CRC_ERR", <<>>)>>, FALSE, m, None, None)
    ELSE IF InstantiateSubclass(ReqId(frame), frame) = "SubclassNotFoundError"
    THEN Return(<<L2Response("UNKNOWN_REQ", <<>>)>>, FALSE, m, None, None)
    ELSE IF InstantiateSubclass(ReqId(frame), frame) = "NoValidSubclassError"
    THEN Return(<<L2Response("CRC_ERR", <<>>)>>, FALSE, m, None, None)
    ELSE ProcessL2Request(m, ReqId(frame), ReqData(frame), e_tpriv)

\* _process_input without the checksum test
ProcessInputInnerNoCrc(m, frame, e_tpriv) ==
    IF InstantiateSubclass(ReqId(frame), frame) = "SubclassNotFoundError"
    THEN Return(<<L2Response("UNKNOWN_REQ", <<>>)>>, FALSE, m, None, None)
    ELSE IF InstantiateSubclass(ReqId(frame), frame) = "NoValidSubclassError"
    THEN Return(<<L2Response("CRC_ERR", <<>>)>>, FALSE, m, None, None)
    ELSE CatchL2ProcessingError(
             ProcessL2Request(m, ReqId(frame), ReqData(frame), e_tpriv))

\* _process_input with the two lookup failures answered the other way round
ProcessInputInnerSwapped(m, frame, e_tpriv) ==
    IF ~HasValidCrc(frame)
    THEN Return(<<L2Response("CRC_ERR", <<>>)>>, FALSE, m, None, None)
    ELSE IF InstantiateSubclass(ReqId(frame), frame) = "SubclassNotFoundError"
    THEN Return(<<L2Response("CRC_ERR", <<>>)>>, FALSE, m, None, None)
    ELSE IF InstantiateSubclass(ReqId(frame), frame) = "NoValidSubclassError"
    THEN Return(<<L2Response("UNKNOWN_REQ", <<>>)>>, FALSE, m, None, None)
    ELSE CatchL2ProcessingError(
             ProcessL2Request(m, ReqId(frame), ReqData(frame), e_tpriv))

\* BaseModel._process_input
ProcessInputInner(m, frame, e_tpriv) ==
    IF ~HasValidCrc(frame)
    THEN Return(<<L2Response("CRC_ERR", <<>>)>>, FALSE, m, None, None)
    ELSE IF InstantiateSubclass(ReqId(frame), frame) = "SubclassNotFoundError"
    THEN Return(<<L2Response("UNKNOWN_REQ", <<>>)>>, FALSE, m, None, None)
    ELSE IF InstantiateSubclass(ReqId(frame), frame) = "NoValidSubclassError"
    THEN Return(<<L2Response("CRC_ERR", <<>>)>>, FALSE, m, None, None)
    ELSE CatchL2ProcessingError(
             ProcessL2Request(m, ReqId(frame), ReqData(frame), e_tpriv))

\* process_input that serialises the responses of a list last first
ProcessInputReversed(m, frame, e_tpriv) ==
    LET Converted(h, raw) ==
            [op |-> "process_input", frame |-> frame, kind |-> h.kind, exc |-> h.exc,
             raw |-> raw, is_list |-> h.is_list,
             handler |-> h.handler, l3 |-> h.l3, caught |-> h.caught,
             command |-> h.command, l3_result |-> h.l3_result,
             m |-> h.m]
        Serialised(h) ==
            Converted(h, [i \in 1..Len(h.rsps) |-> RspToBytes(h.rsps[Len(h.rsps) + 1 - i])])
    IN  Serialised(ProcessInputInner(m, frame, e_tpriv))

\* BaseModel.process_input: the outcome of the call, with the model it leaves
\* (h is what _process_input returns or raises, raw its responses converted
\* with to_bytes); the call itself stores nothing in the command buffer
ProcessInput(m, frame, e_tpriv) ==
    LET Converted(h, raw) ==
            [op |-> "process_input", frame |-> frame, kind |-> h.kind, exc |-> h.exc,
             raw |-> raw, is_list |-> h.is_list,
             handler |-> h.handler, l3 |-> h.l3, caught |-> h.caught,
             command |-> h.command, l3_result |-> h.l3_result,
             m |-> h.m]
        Serialised(h) == Converted(h, [i \in 1..Len(h.rsps) |-> RspToBytes(h.rsps[i])])
    IN  Serialised(ProcessInputInner(m, frame, e_tpriv))

(***************************************************************************)
(* The L1 layer (SpiFsm), which BaseModel.spi_drive_csn_low,               *)
(* spi_drive_csn_high and spi_send hand over to                            *)
(***************************************************************************)
\* busy_iter: the busy schedule injected at construction, taken in a cycle
BusySchedule == <<TRUE, TRUE, FALSE, FALSE>>

\* drive_csn_low accepted in every state
SpiFsmDriveCsnLowAlways(f) ==
    [ok |-> TRUE, f |-> [f EXCEPT !.state = "RECEIVING", !.rx = <<>>]]

\* SpiFsm.spi_drive_csn_low: [ok, f]; accepted from IDLE only
SpiFsmDriveCsnLow(f) ==
    IF f.state = "IDLE"
    THEN [ok |-> TRUE, f |-> [f EXCEPT !.state = "RECEIVING", !.rx = <<>>]]
    ELSE [ok |-> FALSE, f |-> f]

\* drive_csn_high that keeps the bytes of an unfinished request
SpiFsmDriveCsnHighKeepsBytes(f) == [f EXCEPT !.state = "IDLE", !.tx = <<>>]

\* SpiFsm.spi_drive_csn_high: back to IDLE from every state, what was
\* received and what was pending dropped
SpiFsmDriveCsnHigh(f) == [f EXCEPT !.state = "IDLE", !.rx = <<>>, !.tx = <<>>]

\* the bytes received make a whole frame: id, length, data, checksum
FrameComplete(rx) == Len(rx) >= 2 /\ Len(rx) >= rx[2] + 4

\* a busy cycle that takes the pending response frame with it
SpiFsmBusyConsumes(f) == [f EXCEPT !.tx = IF @ = <<>> THEN @ ELSE Tail(@)]

\* what a busy cycle leaves of the transport
SpiFsmBusy(f) == f

\* the command buffer once the response `raw` to a request has been produced:
\* the response of every request other than a resend replaces what it held
StoreResponse(m, handler, raw) ==
    IF handler = "ts_l2_resend" THEN m ELSE [m EXCEPT !.command_buffer = raw]

\* SpiFsm.process_spi_data: one exchange; [kind, out, m, handler] where kind is
\*   "rejected"    the chip select is high, nothing is exchanged
\*   "received"    bytes of a request taken in (and the frame dispatched
\*                 when they complete it: handler is the handler that ran,
\*                 and the response is kept for a resend)
\*   "raise"       the dispatcher let an exception through
\*   "busy"        a transport cycle in which the schedule asserts busy
\*   "no_response" a transport cycle with no response frame pending
\*   "return"      a transport cycle that hands over the response frame out
ProcessSpiData(m, data, e_tpriv) ==
    LET f == m.spi_fsm
        next == (f.busy % Len(BusySchedule)) + 1
    IN  IF f.state = "IDLE"
        THEN [kind |-> "rejected", out |-> <<>>, m |-> m, handler |-> None]
        ELSE IF f.state = "RECEIVING"
        THEN IF ~FrameComplete(f.rx \o data)
             THEN [kind |-> "received", out |-> <<>>, handler |-> None,
                   m |-> [m EXCEPT !.spi_fsm.rx = f.rx \o data]]
             ELSE LET Dispatch(o) ==
                          IF o.kind = "return"
                          THEN [kind |-> "received", out |-> <<>>, handler |-> o.handler,
                                m |-> [StoreResponse(o.m, o.handler, o.raw)
                                           EXCEPT !.spi_fsm =
                                               [f EXCEPT !.state = "PROCESSING",
                                                         !.rx = <<>>, !.tx = o.raw]]]
                          ELSE [kind |-> "raise", out |-> <<>>, handler |-> o.handler,
                                m |-> [o.m EXCEPT !.spi_fsm.rx = <<>>]]
                  IN  Dispatch(ProcessInput(m, f.rx \o data, e_tpriv))
        ELSE IF BusySchedule[f.busy]
        THEN [kind |-> "busy", out |-> <<>>, handler |-> None,
              m |-> [m EXCEPT !.spi_fsm = [SpiFsmBusy(f) EXCEPT !.busy = next]]]
        ELSE IF f.tx = <<>>
        THEN [kind |-> "no_response", out |-> <<>>, handler |-> None,
              m |-> [m EXCEPT !.spi_fsm = [f EXCEPT !.state = "SENDING", !.busy = next]]]
        ELSE [kind |-> "return", out |-> Head(f.tx), handler |-> None,
              m |-> [m EXCEPT !.spi_fsm =
                        [f EXCEPT !.state = "SENDING", !.busy = next,
                                  !.tx = Tail(f.tx)]]]

(***************************************************************************)
(* The configuration of a model as a plain dict, and a model built from    *)
(* one.  The construction parameters that no operation changes (static     *)
(* keys, certificate, chip id, firmware versions, init byte, busy          *)
(* schedule) are definitions of this module, the same for every model.     *)
(***************************************************************************)
\* the values that stand for a blank and for an invalidated slot
BLANK_VALUE == Fill(KEY_SIZE, 255)
INVALID_VALUE == Fill(KEY_SIZE, 0)

\* ConfigurationObjectImpl.to_dict: the value of each register, a number of
\* 32 bits kept as its four bytes, lowest first
RegisterValue(bits) ==
    [k \in 1..(U32_WIDTH \div 8) |->
        LET v(b) == IF (8 * (k - 1) + b) \in bits THEN Pow2(b) ELSE 0
        IN  v(0) + v(1) + v(2) + v(3) + v(4) + v(5) + v(6) + v(7)]

ConfigToDict(config) == [r \in Registers |-> RegisterValue(config[r])]

\* ConfigurationObjectImpl.from_dict
ConfigFromDict(d) ==
    [r \in Registers |-> {b \in AllBits : Bit(d[r][(b \div 8) + 1], b % 8) = 1}]

\* PairingKeys.to_dict: the value of each slot
PairingKeysToDict(keys) ==
    [k \in DOMAIN keys |->
        [value |-> CASE keys[k].kind = BLANK -> BLANK_VALUE
                     [] keys[k].kind = INVALID -> INVALID_VALUE
                     [] OTHER -> keys[k].value]]

\* PairingKeys.from_dict
PairingKeysFromDict(d) ==
    [k \in DOMAIN d |->
        CASE d[k].value = BLANK_VALUE -> SlotBlank
          [] d[k].value = INVALID_VALUE -> SlotInvalid
          [] OTHER -> SlotSet(d[k].value)]

\* BaseModel.to_dict
ToDict(m) ==
    [r_config |-> ConfigToDict(m.r_config),
     i_config |-> ConfigToDict(m.i_config),
     i_pairing_keys |-> PairingKeysToDict(m.i_pairing_keys),
     activate_encryption |-> m.activate_encryption]

\* from_dict leaving out, as it does a value that is None, every value that
\* is false, so that the parameter takes its default
FromDictDropsFalse(d) ==
    [activate_encryption |-> TRUE,
     session |-> SessionReset,
     pairing_key_slot |-> -1,
     i_pairing_keys |-> PairingKeysFromDict(d.i_pairing_keys),
     i_config |-> ConfigFromDict(d.i_config),
     r_config |-> ConfigFromDict(d.r_config),
     config_cache |-> NoConfig,
     command_buffer |-> <<>>,
     spi_fsm |-> SpiFsmReset]

\* BaseModel.from_dict: __init__ on the values of the dict
FromDict(d) ==
    [activate_encryption |-> d.activate_encryption,
     session |-> SessionReset,
     pairing_key_slot |-> -1,
     i_pairing_keys |-> PairingKeysFromDict(d.i_pairing_keys),
     i_config |-> ConfigFromDict(d.i_config),
     r_config |-> ConfigFromDict(d.r_config),
     config_cache |-> NoConfig,
     command_buffer |-> <<>>,
     spi_fsm |-> SpiFsmReset]

(***************************************************************************)
(* The inputs of the explored runs                                         *)
(***************************************************************************)
HostKey(v) == Fill(KEY_SIZE, v)

\* the values the random source gives for the ephemeral secret of a handshake
EphemeralSecrets == {1, 2}

\* the pairing keys as the configuration provider sets them
InitPairingKeys ==
    [k \in 0..(S_HI_PUB_NB_SLOTS - 1) |->
        CASE k = 0 -> SlotSet(HostKey(17))
          [] k = 1 -> SlotSet(HostKey(34))
          [] k = 2 -> SlotBlank
          [] OTHER -> SlotInvalid]

\* a configuration object as erased: every bit 1
ConfigAllOnes == [r \in Registers |-> AllBits]

GetInfoFrames ==
    {MkFrame(GET_INFO, <<0, 0>>), MkFrame(GET_INFO, <<0, 4>>),
     MkFrame(GET_INFO, <<2, 4>>), MkFrame(GET_INFO, <<3, 0>>)}

HandshakeFrames ==
    {MkFrame(HANDSHAKE, HostKey(5) \o <<k>>) : k \in 0..S_HI_PUB_NB_SLOTS}

UnimplementedFrames == {MkFrame(SLEEP, <<5>>), MkFrame(GET_LOG, <<>>)}

\* a frame with an id the registry does not hold
UnknownFrames == {MkFrame(85, <<>>)}

\* registered ids with a data field outside the bounds of the message
MalformedFrames ==
    {MkFrame(GET_INFO, <<0>>), MkFrame(HANDSHAKE, HostKey(5)),
     MkFrame(ENCRYPTED_CMD, <<>>)}

\* the well-formed requests other than Handshake and Encrypted_Cmd
WellFormedFrames ==
    GetInfoFrames \cup UnimplementedFrames
        \cup {MkFrame(ENCRYPTED_SESSION_ABT, <<>>), MkFrame(RESEND, <<>>)}

BadCrcFrames ==
    {BadCrc(f) : f \in {MkFrame(HANDSHAKE, HostKey(5) \o <<0>>),
                        MkFrame(ENCRYPTED_SESSION_ABT, <<>>),
                        MkFrame(85, <<>>),
                        MkFrame(GET_INFO, <<0>>)}}

\* the frames sent in clear
PlainFrames == WellFormedFrames \cup UnknownFrames \cup MalformedFrames \cup BadCrcFrames

IConfigWriteCmd(address, bit_index) ==
    <<L3Enum.I_CONFIG_WRITE, address % 256, address \div 256, bit_index>>

PairingKeyWriteCmd(slot, key) ==
    <<L3Enum.PAIRING_KEY_WRITE, slot % 256, slot \div 256, 0>> \o key

\* the L3 commands a host sends
L3Commands == {IConfigWriteCmd(64, 1), PairingKeyWriteCmd(2, HostKey(51))}

\* how the host seals a command: with the keys of the session, the same then
\* altered in one byte, or not at all
SealModes == {"session", "tampered", "clear"}

HostSeal(mode, s, command) ==
    CASE mode = "session" -> Seal(s.k_cmd, s.nonce_cmd, command)
      [] mode = "tampered" ->
            [Seal(s.k_cmd, s.nonce_cmd, command) EXCEPT ![1] = (@ + 1) % 256]
      [] OTHER -> command \o Fill(ENCRYPTION_TAG_LEN, 0)

EncryptedCmdFrame(mode, s, command) ==
    MkFrame(ENCRYPTED_CMD, L3Packet(HostSeal(mode, s, command)))

(***************************************************************************)
(* The message fields (tvl/messages/datafield.py, endianness.py)           *)
(***************************************************************************)
\* Dtype.nb_bytes of UINT8, UINT16, UINT32 and UINT64
UINT8 == 1
UINT16 == 2
UINT32 == 4
UINT64 == 8

AUTO == "AUTO"

\* Params: size overrides min_size and max_size
Params(dtype, min_size, max_size, scalar) ==
    [dtype |-> dtype, min_size |-> min_size, max_size |-> max_size,
     scalar |-> scalar]

Sized(dtype, size, scalar) == Params(dtype, size, size, scalar)

HasVariableSize(params) == params.min_size # params.max_size

U8Scalar == Sized(UINT8, 1, TRUE)
U16Scalar == Sized(UINT16, 1, TRUE)
U32Scalar == Sized(UINT32, 1, TRUE)
U64Scalar == Sized(UINT64, 1, TRUE)
U8Array(size) == Sized(UINT8, size, FALSE)
U16Array(size) == Sized(UINT16, size, FALSE)
U32Array(size) == Sized(UINT32, size, FALSE)
U64Array(size) == Sized(UINT64, size, FALSE)

RECURSIVE Reverse(_)
Reverse(s) == IF s = <<>> THEN <<>> ELSE Append(Reverse(Tail(s)), Head(s))

\* the k lowest bytes of x, lowest first
RECURSIVE LowBytes(_, _)
LowBytes(x, k) ==
    IF k = 0 THEN <<>> ELSE <<x % 256>> \o LowBytes(x \div 256, k - 1)

\* x shifted right by k bytes
RECURSIVE ShiftedRight(_, _)
ShiftedRight(x, k) == IF k = 0 THEN x ELSE ShiftedRight(x \div 256, k - 1)

\* struct.pack accepts x in a format of nb_bytes bytes
Packable(x, nb_bytes) == x >= 0 /\ ShiftedRight(x, nb_bytes) = 0

\* struct.pack of one element in the byte order fmt
PackOne(x, nb_bytes, fmt) ==
    IF fmt = "<" THEN LowBytes(x, nb_bytes) ELSE Reverse(LowBytes(x, nb_bytes))

RECURSIVE PackAll(_, _, _)
PackAll(value, nb_bytes, fmt) ==
    IF value = <<>> THEN <<>>
    ELSE PackOne(Head(value), nb_bytes, fmt) \o PackAll(Tail(value), nb_bytes, fmt)

\* the integer whose bytes, highest first, are data
RECURSIVE FromHighFirst(_)
FromHighFirst(data) ==
    IF data = <<>> THEN 0
    ELSE 256 * FromHighFirst(SubSeq(data, 1, Len(data) - 1)) + data[Len(data)]

\* struct.unpack of one element in the byte order fmt
UnpackOne(data, fmt) ==
    IF fmt = "<" THEN FromHighFirst(Reverse(data)) ELSE FromHighFirst(data)

\* Endianness.fmt
Fmt(order) == IF order = "little" THEN "<" ELSE ">"

\* _format_to_list of a bytes value that decodes the bytes as elements of the
\* field's type whatever their number
FormatBytesToListByDtype(data, dtype, fmt) ==
    IF Len(data) % dtype = 0
    THEN [i \in 1..(Len(data) \div dtype) |->
             UnpackOne(SubSeq(data, (i - 1) * dtype + 1, i * dtype), fmt)]
    ELSE data
\* _format_to_list of a bytes value: one element of the field's type when
\* the bytes are exactly one element, otherwise one UINT8 element per byte
FormatBytesToList(data, dtype, fmt) ==
    IF Len(data) = dtype THEN <<UnpackOne(data, fmt)>> ELSE data

\* the length ValueDescriptor.__set__ pads to, were every field padded to
\* max_size
MinLengthMax(params) == params.max_size
\* the length ValueDescriptor.__set__ pads to
MinLength(params) ==
    IF HasVariableSize(params) THEN params.min_size ELSE params.max_size

\* the list after value.extend([0] * padding_length)
Padded(value, min_length) ==
    IF min_length - Len(value) > 0
    THEN value \o Fill(min_length - Len(value), 0) ELSE value

\* the object a field holds when the descriptor made the list itself
Own(name) == IF name = "f" THEN "own_f" ELSE "own_g"

\* the list objects once the lists no field holds any more are freed
Collected(h, fs) ==
    [object \in DOMAIN h |->
        IF object \in {Own(name) : name \in DOMAIN fs}
           /\ \A name \in DOMAIN fs : fs[name].value # object
        THEN <<>> ELSE h[object]]

\* struct.unpack gives a value below 2^31, the largest the runs explore
Explored(data, dtype, fmt) ==
    Len(data) = dtype =>
        LET high == IF fmt = "<" THEN Reverse(data) ELSE data
        IN  /\ \A i \in 1..(Len(high) - 4) : high[i] = 0
            /\ Len(high) >= 4 => high[Len(high) - 3] < 128

\* ValueDescriptor.__set__(instance, value) on the field called name, with
\* the list objects h and the fields fs: kind is the type of value, arg the
\* integer, the bytes or the list object given
SetValue(h, fs, name, kind, arg, fmt) ==
    LET params == fs[name].params
        object == IF kind = "list" THEN arg ELSE Own(name)
        value == CASE kind = "int" -> <<arg>>
                   [] kind = "bytes" -> FormatBytesToList(arg, params.dtype, fmt)
                   [] kind = "list" -> h[arg]
                   [] OTHER -> <<>>
    IN  CASE kind = AUTO ->
               [heap |-> Collected(h, [fs EXCEPT ![name].value = AUTO]),
                fields |-> [fs EXCEPT ![name].value = AUTO],
                exc |-> None]
          [] kind = "str" ->
               [heap |-> h, fields |-> fs, exc |-> "TypeNotSupportedError"]
          [] Len(value) > params.max_size ->
               [heap |-> h, fields |-> fs, exc |-> "ListTooLongError"]
          [] OTHER ->
               [heap |-> Collected([h EXCEPT ![object] = Padded(value, MinLength(params))],
                                   [fs EXCEPT ![name].value = object]),
                fields |-> [fs EXCEPT ![name].value = object],
                exc |-> None]

\* DataField.__len__
DataFieldLen(h, field) ==
    IF field.value = AUTO THEN field.params.min_size * field.params.dtype
    ELSE Len(h[field.value]) * field.params.dtype

\* DataField.to_bytes that packs whatever the elements are, keeping the low
\* bytes
ToBytesUnchecked(h, field, fmt) ==
    IF field.value = AUTO THEN [exc |-> "AssertionError", out |-> <<>>]
    ELSE [exc |-> None, out |-> PackAll(h[field.value], field.params.dtype, fmt)]
\* DataField.to_bytes
ToBytes(h, field, fmt) ==
    IF field.value = AUTO THEN [exc |-> "AssertionError", out |-> <<>>]
    ELSE IF \E i \in 1..Len(h[field.value]) :
                ~Packable(h[field.value][i], field.params.dtype)
         THEN [exc |-> "DataValueError", out |-> <<>>]
         ELSE [exc |-> None, out |-> PackAll(h[field.value], field.params.dtype, fmt)]

\* the fields declared in the explored runs
Declarations ==
    {U8Scalar, U16Scalar, U32Scalar, U64Scalar,
     U8Array(2), U16Array(2), U32Array(2), U64Array(2), U8Array(3),
     Params(UINT8, 2, 4, FALSE), Params(UINT16, 0, 2, FALSE)}

\* the declarations of the second field
SecondDeclarations == {U8Array(4), U16Array(2)}

\* the lists the caller holds
CallerLists ==
    {<<>>, <<1>>, <<7, 258>>, <<1, 2, 3, 4, 5>>, <<-1, 0>>}

IntInputs == {0, 255, 256, 65536, -1, 2147483647}

BytesInputs ==
    {<<>>, <<1>>, <<1, 2>>, <<1, 2, 3>>, <<0, 1, 2, 0>>, <<1, 2, 3, 4, 5>>}

NoCall ==
    [op |-> "init", field |-> "-", kind |-> "-", arg |-> <<>>, ref |-> "-",
     result |-> "none", exc |-> None, out |-> <<>>]

\* the message library as imported and two fields built with the default 0
FieldsOf(p, q) ==
    [name \in {"f", "g"} |->
        [params |-> IF name = "f" THEN p ELSE q, value |-> Own(name)]]

HeapOf(a, p, q) ==
    [object \in {"a", "own_f", "own_g"} |->
        CASE object = "a" -> a
          [] object = "own_f" -> Padded(<<0>>, MinLength(p))
          [] OTHER -> Padded(<<0>>, MinLength(q))]

(***************************************************************************)
(* The model classes and their handlers (tvl/targets/model/meta_model.py)  *)
(***************************************************************************)
\* the model classes of the explored runs: BaseModel with the base method,
\* L2API with the handlers that raise NotImplementedError("TODO"), a model
\* class A, a subclass B of A and a sibling C of A
Classes == {"BaseModel", "L2API", "A", "B", "C"}

Parent ==
    [c \in Classes |->
        CASE c = "L2API" -> "BaseModel"
          [] c = "A" -> "L2API"
          [] c = "B" -> "A"
          [] c = "C" -> "L2API"
          [] OTHER -> None]

\* the methods marked with api("l2_api") in the body of each class (three
\* of the ten of L2API)
Namespace ==
    [c \in Classes |->
        CASE c = "L2API" -> {"ts_l2_get_info", "ts_l2_handshake", "ts_l2_resend"}
          [] c = "A" -> {"ts_l2_get_info", "ts_l2_handshake"}
          [] c = "B" -> {"ts_l2_get_info"}
          [] c = "C" -> {"ts_l2_handshake"}
          [] OTHER -> {}]

\* the request type a handler is annotated with
AnnotatedType(name) ==
    CASE name = "ts_l2_get_info" -> "TsL2GetInfoRequest"
      [] name = "ts_l2_handshake" -> "TsL2HandshakeRequest"
      [] OTHER -> "TsL2ResendRequest"

\* the request types: three of those L2API has a handler for, and L2Request
\* itself, a type no handler is annotated with
RequestTypes ==
    {"TsL2GetInfoRequest", "TsL2HandshakeRequest", "TsL2ResendRequest",
     "L2Request"}

\* new_cls.__mro__[:-1]
RECURSIVE Mro(_)
Mro(c) == IF Parent[c] = None THEN <<c>> ELSE <<c>> \o Mro(Parent[c])

\* api_over["l2_api"]: the handler names found in the classes of the MRO
ApiOver(c) == UNION {Namespace[Mro(c)[i]] : i \in 1..Len(Mro(c))}

\* getattr(new_cls, over_name): the method of the first class of the MRO
\* that has one of that name
GetAttr(c, name) ==
    LET first == CHOOSE i \in 1..Len(Mro(c)) :
                     /\ name \in Namespace[Mro(c)[i]]
                     /\ \A j \in 1..(i - 1) : name \notin Namespace[Mro(c)[j]]
    IN  [cls |-> Mro(c)[first], name |-> name]

\* the base method, BaseModel.process_l2_request
BaseMethod == [cls |-> "BaseModel", name |-> "process_l2_request"]

Unregistered == [cls |-> None, name |-> None]

\* MetaModel.__new__: the registry of the base method after the class c is
\* created. The base method is one singledispatchmethod object, found in the
\* MRO of every model class, and each handler name is registered under its
\* annotated type with the method the new class has of that name
MetaModelNew(reg, c) ==
    [t \in RequestTypes |->
        IF \E name \in ApiOver(c) : AnnotatedType(name) = t
        THEN GetAttr(c, CHOOSE name \in ApiOver(c) : AnnotatedType(name) = t)
        ELSE reg[t]]

\* the method that process_l2_request(request) runs: the one registered for
\* the type of the request, or the base method itself
Dispatch(reg, request_type) ==
    IF reg[request_type] = Unregistered THEN BaseMethod ELSE reg[request_type]

\* what the method raises; the handlers of A, B and C return a response
Raised(method) ==
    IF method = BaseMethod THEN "NotImplementedError: not supported"
    ELSE IF method.cls = "L2API" THEN "NotImplementedError: TODO"
    ELSE None

NoDispatch ==
    [op |-> "init", class |-> None, request |-> None, handler |-> Unregistered,
     exc |-> None]

\* the message library as imported, and two fields built with their default
MessagesInit ==
    /\ endianness = "little"
    /\ fields = FieldsOf(U8Array(2), U8Array(4))
    /\ heap = HeapOf(<<>>, U8Array(2), U8Array(4))
    /\ call = NoCall
    /\ defined = {"BaseModel"}
    /\ registry = [t \in RequestTypes |-> Unregistered]
    /\ dispatched = NoDispatch

MessagesUnchanged ==
    UNCHANGED <<endianness, heap, fields, call, defined, registry, dispatched>>

ClassesUnchanged == UNCHANGED <<defined, registry, dispatched>>

(***************************************************************************)
(* The state machine                                                       *)
(***************************************************************************)
NoOutcome(op) ==
    [op |-> op, frame |-> <<>>, kind |-> "none", exc |-> None,
     raw |-> <<>>, is_list |-> FALSE, handler |-> None, l3 |-> None,
     caught |-> None, command |-> <<>>, l3_result |-> <<>>,
     value |-> 0, before |-> pairing_key_slot]

\* BaseModel.__init__
Init ==
    /\ activate_encryption \in BOOLEAN
    /\ session = SessionReset
    /\ pairing_key_slot = -1
    /\ i_pairing_keys = InitPairingKeys
    /\ i_config = ConfigAllOnes
    /\ r_config = ConfigAllOnes
    /\ config_cache = NoConfig
    /\ command_buffer = <<>>
    /\ spi_fsm = SpiFsmReset
    /\ outcome = NoOutcome("init")
    /\ MessagesInit

\* the attributes of the model become those of m
Becomes(m) ==
    /\ activate_encryption' = m.activate_encryption
    /\ session' = m.session
    /\ pairing_key_slot' = m.pairing_key_slot
    /\ i_pairing_keys' = m.i_pairing_keys
    /\ i_config' = m.i_config
    /\ r_config' = m.r_config
    /\ config_cache' = m.config_cache
    /\ command_buffer' = m.command_buffer
    /\ spi_fsm' = m.spi_fsm
    /\ MessagesUnchanged

\* one call of process_input with a raw frame
Deliver(frame, e_tpriv) ==
    \E o \in {ProcessInput(Model, frame, e_tpriv)} :
        /\ Becomes(o.m)
        /\ outcome' = [op |-> o.op, frame |-> o.frame, kind |-> o.kind,
                       exc |-> o.exc, raw |-> o.raw,
                       is_list |-> o.is_list, handler |-> o.handler, l3 |-> o.l3,
                       caught |-> o.caught, command |-> o.command,
                       l3_result |-> o.l3_result,
                       value |-> 0, before |-> pairing_key_slot]

\* the host sends a frame in clear
SendRequest == \E frame \in PlainFrames : Deliver(frame, 1)

\* the host sends a Handshake request; the random source gives e_tpriv
SendHandshake ==
    \E frame \in HandshakeFrames, e_tpriv \in EphemeralSecrets : Deliver(frame, e_tpriv)

\* the host sends an L3 command in an Encrypted_Cmd request
SendEncryptedCmd ==
    /\ session.nonce_cmd < MaxNonce
    /\ session.nonce_resp < MaxNonce
    /\ \E mode \in SealModes, command \in L3Commands :
           Deliver(EncryptedCmdFrame(mode, session, command), 1)

\* BaseModel.power_off
PowerOff ==
    /\ Becomes(ProcessPowerOff(Model))
    /\ outcome' = NoOutcome("power_off")

\* BaseModel.power_on
PowerOn ==
    /\ Becomes(Model)
    /\ outcome' = NoOutcome("power_on")

Next == SendRequest \/ SendHandshake \/ SendEncryptedCmd \/ PowerOff \/ PowerOn

Spec == Init /\ [][Next]_vars

(***************************************************************************)
(* Power cycles: a host that pairs on slot 0 or 1, sends commands sealed   *)
(* for the mode of the model, aborts the session, drives the chip select   *)
(* line and switches the model off                                         *)
(***************************************************************************)
\* the host pairs on a slot that holds a key
PairHost ==
    \E k \in {0, 1} : Deliver(MkFrame(HANDSHAKE, HostKey(5) \o <<k>>), 1)

\* the host sends an L3 command the way the mode of the model expects it
SendSealedCmd ==
    /\ session.nonce_cmd < MaxNonce
    /\ session.nonce_resp < MaxNonce
    /\ \E command \in L3Commands \cup {IConfigWriteCmd(0, 31)} :
           Deliver(EncryptedCmdFrame(IF activate_encryption THEN "session" ELSE "clear",
                                     session, command), 1)

\* BaseModel.spi_drive_csn_low: a transfer starts, or the call is refused
SpiDriveCsnLow ==
    \E o \in {SpiFsmDriveCsnLow(spi_fsm)} :
        /\ Becomes([Model EXCEPT !.spi_fsm = o.f])
        /\ outcome' = [NoOutcome("spi_drive_csn_low") EXCEPT
                          !.kind = IF o.ok THEN "return" ELSE "rejected"]

\* BaseModel.spi_drive_csn_high: the transfer ends; the outcome keeps, as
\* frame, the bytes of an unfinished request that the call gives up
SpiDriveCsnHigh ==
    /\ Becomes([Model EXCEPT !.spi_fsm = SpiFsmDriveCsnHigh(spi_fsm)])
    /\ outcome' = [NoOutcome("spi_drive_csn_high") EXCEPT
                      !.kind = "return", !.frame = spi_fsm.rx]

\* BaseModel.spi_send: the host sends a whole Get_Info request once the chip
\* select is low
SpiSendGetInfo ==
    /\ spi_fsm.state = "RECEIVING"
    /\ \E frame \in {MkFrame(GET_INFO, <<ObjectIdEnum.CHIP_ID, 0>>)} :
       \E o \in {ProcessSpiData(Model, frame, 1)} :
           /\ Becomes(o.m)
           /\ outcome' = [NoOutcome("spi_send") EXCEPT
                             !.kind = o.kind, !.frame = frame, !.handler = o.handler]

\* a read of BaseModel.config: the first one computes and caches the value
ReadConfig ==
    /\ Becomes(AfterConfig(Model))
    /\ outcome' = NoOutcome("config")

\* the host sends an Encrypted_Session_Abt request
AbortSession == Deliver(MkFrame(ENCRYPTED_SESSION_ABT, <<>>), 1)

NextPower ==
    \/ PairHost
    \/ SendSealedCmd
    \/ AbortSession
    \/ PowerOff
    \/ SpiDriveCsnLow
    \/ SpiDriveCsnHigh
    \/ SpiSendGetInfo
    \/ ReadConfig

\* BaseModel.__init__ with the reversible configuration it is given: erased,
\* or with bit 7 of CFG_START_UP cleared
InitPower ==
    /\ activate_encryption \in BOOLEAN
    /\ session = SessionReset
    /\ pairing_key_slot = -1
    /\ i_pairing_keys = InitPairingKeys
    /\ i_config = ConfigAllOnes
    /\ r_config \in {ConfigAllOnes,
                     [ConfigAllOnes EXCEPT !.CFG_START_UP = AllBits \ {7}]}
    /\ config_cache = NoConfig
    /\ command_buffer = <<>>
    /\ spi_fsm = SpiFsmReset
    /\ outcome = NoOutcome("init")
    /\ MessagesInit

SpecPower == InitPower /\ [][NextPower]_vars

(***************************************************************************)
(* Snapshots: the runs of a power cycle, in which the model may at any     *)
(* point be replaced by the model rebuilt from its configuration dict      *)
(***************************************************************************)
\* the commands that change what the dict holds: bits of a register of
\* i_config cleared, a key written to the blank slot
SnapshotCommands ==
    {IConfigWriteCmd(0, 31), IConfigWriteCmd(32, 0), IConfigWriteCmd(64, 9),
     PairingKeyWriteCmd(2, HostKey(51))}

SendSnapshotCmd ==
    /\ session.nonce_cmd < MaxNonce
    /\ session.nonce_resp < MaxNonce
    /\ \E command \in SnapshotCommands :
           Deliver(EncryptedCmdFrame(IF activate_encryption THEN "session" ELSE "clear",
                                     session, command), 1)

\* BaseModel.from_dict(model.to_dict())
Snapshot ==
    /\ Becomes(FromDict(ToDict(Model)))
    /\ outcome' = NoOutcome("from_dict")

NextSnap ==
    \/ PairHost
    \/ SendSnapshotCmd
    \/ SpiDriveCsnLow
    \/ SpiSendGetInfo
    \/ PowerOff
    \/ Snapshot

SpecSnap == Init /\ [][NextSnap]_vars

(***************************************************************************)
(* The transport: a host that drives the chip select line, sends requests  *)
(* whole or in pieces, reads the responses cycle by cycle, and gives up    *)
(* exchanges half-way                                                      *)
(***************************************************************************)
\* the data a Ping carries: long enough for a result of two response frames
PingData == [i \in 1..(CHUNK_SIZE - 8) |-> i]

PingCmd(data) == <<L3Enum.PING>> \o data

\* the requests the host sends over the transport
SpiFrames ==
    {MkFrame(GET_INFO, <<ObjectIdEnum.CHIP_ID, 0>>),
     BadCrc(MkFrame(GET_INFO, <<ObjectIdEnum.RISCV_FW_VERSION, 0>>)),
     MkFrame(HANDSHAKE, HostKey(5) \o <<0>>),
     MkFrame(RESEND, <<>>),
     MkFrame(85, <<>>),
     EncryptedCmdFrame(IF activate_encryption THEN "session" ELSE "clear",
                       session, PingCmd(PingData))}

\* a request whole, its first byte, its first three bytes, and what follows
\* either
SpiPieces(frame) ==
    {frame, SubSeq(frame, 1, 1), SubSeq(frame, 2, Len(frame)),
     SubSeq(frame, 1, 3), SubSeq(frame, 4, Len(frame))}

IsPrefix(a, b) == Len(a) <= Len(b) /\ SubSeq(b, 1, Len(a)) = a

\* BaseModel.spi_send: the host starts on any piece of a request, and goes
\* on with the pieces that follow what it has sent
SpiSend ==
    /\ session.nonce_cmd < MaxNonce
    /\ session.nonce_resp < MaxNonce
    /\ \E frame \in SpiFrames :
       \E data \in SpiPieces(frame) :
           /\ spi_fsm.rx = <<>> \/ IsPrefix(spi_fsm.rx \o data, frame)
           /\ spi_fsm.state \in {"PROCESSING", "SENDING"} => data = SubSeq(frame, 1, 1)
           /\ \E o \in {ProcessSpiData(Model, data, 1)} :
                  /\ Becomes(o.m)
                  /\ outcome' = [NoOutcome("spi_send") EXCEPT
                                    !.kind = o.kind,
                                    !.frame = data,
                                    !.raw = IF o.kind = "return" THEN <<o.out>> ELSE <<>>,
                                    !.handler = o.handler]

NextSpi == SpiDriveCsnLow \/ SpiDriveCsnHigh \/ SpiSend \/ PowerOff

SpecSpi == Init /\ [][NextSpi]_vars

(***************************************************************************)
(* The secure channel on its own: a host that pairs on slot 0 or 1, aborts *)
(* and powers off, and calls of encrypt_result and decrypt_command on      *)
(* results and on commands sealed well, altered in one byte, cut,          *)
(* lengthened or sealed with the key of the other direction                *)
(***************************************************************************)
\* the byte strings handed to encrypt_result and sealed for decrypt_command
CryptStrings ==
    {<<>>, <<7>>, IConfigWriteCmd(64, 1), Fill(ENCRYPTION_TAG_LEN - 1, 3),
     Fill(ENCRYPTION_TAG_LEN + 1, 9)}

\* c with d added to its byte i
AlterByte(c, i, d) == [c EXCEPT ![i] = (@ + d) % 256]

\* what decrypt_command is handed for the session s: commands sealed well;
\* the same with one byte altered, at every position; results the chip
\* sealed for the host; commands sealed well, then cut or lengthened
Ciphertexts(s) ==
    LET well == {Seal(s.k_cmd, s.nonce_cmd, x) : x \in CryptStrings}
        altered ==
            UNION {{AlterByte(c, i, d) : i \in 1..Len(c), d \in {1, 255}} :
                       c \in {Seal(s.k_cmd, s.nonce_cmd, IConfigWriteCmd(64, 1)),
                              Seal(s.k_cmd, s.nonce_cmd, <<7>>)}}
        forhost == {Seal(s.k_res, n, x) : n \in {s.nonce_cmd, s.nonce_resp},
                                          x \in CryptStrings}
        wronglength ==
            UNION {{SubSeq(c, 1, Len(c) - 1), SubSeq(c, 2, Len(c)), c \o <<0>>,
                    SubSeq(c, 1, ENCRYPTION_TAG_LEN - 1)} : c \in well}
    IN  well \cup altered \cup forhost \cup wronglength

\* one call of encrypt_result
CallEncryptResult ==
    /\ session.nonce_resp < MaxNonce
    /\ \E result \in CryptStrings :
           \E o \in {EncryptResult(Model, result)} :
               /\ Becomes(o.m)
               /\ outcome' = [NoOutcome("encrypt_result") EXCEPT
                                 !.kind = "return",
                                 !.frame = result,
                                 !.raw = <<o.bytes>>]

\* one call of decrypt_command; value 1 for bytes returned, 0 for None
CallDecryptCommand ==
    /\ session.nonce_cmd < MaxNonce
    /\ \E command \in CryptStrings \cup Ciphertexts(session) :
           \E o \in {DecryptCommand(Model, command)} :
               /\ Becomes(o.m)
               /\ outcome' = [NoOutcome("decrypt_command") EXCEPT
                                 !.kind = "return",
                                 !.frame = command,
                                 !.raw = <<o.bytes>>,
                                 !.value = IF o.ok THEN 1 ELSE 0]

\* the host sends an Encrypted_Cmd request whose command is altered, sealed
\* for the other direction, or cut (by one byte, or down to the length of a tag)
SendBadlySealedCmd ==
    /\ session.nonce_cmd < MaxNonce
    /\ session.nonce_resp < MaxNonce
    /\ \E c \in {Seal(session.k_cmd, session.nonce_cmd, IConfigWriteCmd(64, 1))} :
       \E sealed \in {AlterByte(c, 1, 1), AlterByte(c, Len(c), 255),
                       Seal(session.k_res, session.nonce_cmd, IConfigWriteCmd(64, 1)),
                       SubSeq(c, 1, Len(c) - 1), SubSeq(c, 1, ENCRYPTION_TAG_LEN)} :
           Deliver(MkFrame(ENCRYPTED_CMD, L3Packet(sealed)), 1)

NextCrypt ==
    \/ PairHost
    \/ AbortSession
    \/ PowerOff
    \/ CallEncryptResult
    \/ CallDecryptCommand
    \/ SendBadlySealedCmd

SpecCrypt == Init /\ [][NextCrypt]_vars

(***************************************************************************)
(* Get_Info: a host that pairs on slot 0 or 1 and asks for every object,   *)
(* known or not, at every block index, defined or not                      *)
(***************************************************************************)
\* TsL2GetInfoRequest.BlockIndexEnum: the blocks of the certificate
BlockIndexEnum == 0..((Len(X509_CERTIFICATE) \div CHUNK_SIZE) - 1)

\* the object ids asked for: the low ones, FW_BANK and the last of a byte
InfoObjectIds == 0..7 \cup {ObjectIdEnum.FW_BANK, 255}

\* the block indices asked for
InfoBlockIndices ==
    0..((Len(X509_CERTIFICATE) \div CHUNK_SIZE) - 1 + MaxBlockBeyond) \cup {255}

\* the host sends a Get_Info request
SendGetInfo ==
    \E object_id \in InfoObjectIds, block_index \in InfoBlockIndices :
        Deliver(MkFrame(GET_INFO, <<object_id, block_index>>), 1)

NextInfo == PairHost \/ SendGetInfo

SpecInfo == Init /\ [][NextInfo]_vars

(***************************************************************************)
(* The access-control check on its own: every slot value, every register   *)
(* field value, both modes                                                 *)
(***************************************************************************)
UapSlots == (0 - MaxSlotBeyond)..(S_HI_PUB_NB_SLOTS - 1 + MaxSlotBeyond)

UapValues == 0..(Pow2(S_HI_PUB_NB_SLOTS + MaxSlotBeyond) - 1)

InitUAP ==
    /\ activate_encryption \in BOOLEAN
    /\ session = SessionReset
    /\ pairing_key_slot \in UapSlots
    /\ i_pairing_keys = InitPairingKeys
    /\ i_config = ConfigAllOnes
    /\ r_config = ConfigAllOnes
    /\ config_cache = NoConfig
    /\ command_buffer = <<>>
    /\ spi_fsm = SpiFsmReset
    /\ outcome = NoOutcome("init")
    /\ MessagesInit

\* one call of check_access_privileges(name, value)
CallCheckAccessPrivileges ==
    \E value \in UapValues :
        /\ outcome' = [NoOutcome("check_access_privileges") EXCEPT
                          !.exc = CheckAccessPrivileges(Model, value),
                          !.kind = IF CheckAccessPrivileges(Model, value) = "ok"
                                   THEN "return" ELSE "raise",
                          !.value = value]
        /\ UNCHANGED <<activate_encryption, session, pairing_key_slot, i_pairing_keys,
                       i_config, r_config, config_cache, command_buffer, spi_fsm>>
        /\ MessagesUnchanged

NextUAP == CallCheckAccessPrivileges

SpecUAP == InitUAP /\ [][NextUAP]_vars

(***************************************************************************)
(* The L3 commands, one call each: process_l3_command on a model in a      *)
(* state the tests set up (a session paired on a slot, configuration       *)
(* objects with bits cleared, the effective configuration read or not)     *)
(***************************************************************************)
\* the irreversible configuration of the I_Config_Write tests: the privileges
\* of I_Config_Write hold 0x0000FFFF; the other registers are drawn at random
\* there and are erased here
I_CONFIG_CFG == [ConfigAllOnes EXCEPT !.CFG_UAP_I_CONFIG_WRITE = 0..15]

\* the irreversible configurations: erased, the one of the tests, and one
\* where slot 1 may not write the configuration and slot 0 may not write
\* pairing-key slot 2
L3IConfigs ==
    {ConfigAllOnes,
     I_CONFIG_CFG,
     [CFG_START_UP |-> AllBits \ {0, 5, 31},
      CFG_UAP_PAIRING_KEY_WRITE |-> AllBits \ {16},
      CFG_UAP_I_CONFIG_WRITE |-> AllBits \ {1}]}

\* the reversible configurations: erased, and one where slot 0 may not write
\* the configuration
L3RConfigs ==
    {ConfigAllOnes,
     [CFG_START_UP |-> AllBits \ {7},
      CFG_UAP_PAIRING_KEY_WRITE |-> AllBits,
      CFG_UAP_I_CONFIG_WRITE |-> AllBits \ {0}]}

\* addresses outside ConfigObjectRegisterAddressEnum
InvalidAddresses == {1, 33, 4096}

\* every bit of a register, the first indices past it and the last a byte holds
BitIndices == 0..(U32_WIDTH - 1 + MaxBitBeyond) \cup {255}

\* every slot, the first indices past them and one that takes two bytes
KeySlots == 0..(S_HI_PUB_NB_SLOTS - 1 + MaxSlotBeyond) \cup {300}

\* one key of equal bytes and one of distinct bytes
NewKeys == {HostKey(15), [i \in 1..KEY_SIZE |-> (7 * i) % 256]}

\* the commands given to process_l3_command; the last is of a type no
\* handler is registered for
L3HarnessCommands ==
    {IConfigWriteCmd(RegisterAddress[r], i) : r \in Registers, i \in BitIndices}
    \cup {IConfigWriteCmd(a, i) : a \in InvalidAddresses, i \in BitIndices}
    \cup {PairingKeyWriteCmd(k, key) : k \in KeySlots, key \in NewKeys}
    \cup {<<80>>}

InitL3 ==
    /\ activate_encryption \in BOOLEAN
    /\ pairing_key_slot \in {-1, 0, 1}
    /\ session = IF pairing_key_slot = -1 THEN SessionReset
                 ELSE ProcessHandshake(InitPairingKeys[pairing_key_slot].value,
                                       HostKey(5), 1)
    /\ i_pairing_keys = InitPairingKeys
    /\ i_config \in L3IConfigs
    /\ r_config \in L3RConfigs
    /\ config_cache \in {NoConfig,
                          [cached |-> TRUE, value |-> ConfigAnd(i_config, r_config)]}
    /\ command_buffer = <<>>
    /\ spi_fsm = SpiFsmReset
    /\ outcome = NoOutcome("init")
    /\ MessagesInit

\* one call of process_l3_command
CallProcessL3Command ==
    /\ outcome.op = "init"
    /\ \E command \in L3HarnessCommands :
           \E o \in {ProcessL3Command(Model, command)} :
               /\ Becomes(o.m)
               /\ outcome' = [NoOutcome("process_l3_command") EXCEPT
                                 !.kind = IF o.exc = None THEN "return" ELSE "raise",
                                 !.exc = o.exc,
                                 !.l3 = o.name,
                                 !.command = command,
                                 !.l3_result = o.result]

NextL3 == CallProcessL3Command

SpecL3 == InitL3 /\ [][NextL3]_vars

(***************************************************************************)
(* The fields: a caller that assigns values to two fields, serializes them *)
(* and changes the byte order                                              *)
(***************************************************************************)
ModelUnchanged ==
    UNCHANGED <<activate_encryption, session, pairing_key_slot, i_pairing_keys,
                i_config, r_config, config_cache, command_buffer, spi_fsm,
                outcome>>

InitField ==
    /\ activate_encryption = TRUE
    /\ session = SessionReset
    /\ pairing_key_slot = -1
    /\ i_pairing_keys = InitPairingKeys
    /\ i_config = ConfigAllOnes
    /\ r_config = ConfigAllOnes
    /\ config_cache = NoConfig
    /\ command_buffer = <<>>
    /\ spi_fsm = SpiFsmReset
    /\ outcome = NoOutcome("init")
    /\ endianness = "little"
    /\ \E p \in Declarations, q \in SecondDeclarations, a \in CallerLists :
           /\ fields = FieldsOf(p, q)
           /\ heap = HeapOf(a, p, q)
    /\ call = NoCall
    /\ defined = {"BaseModel"}
    /\ registry = [t \in RequestTypes |-> Unregistered]
    /\ dispatched = NoDispatch

\* field.value = value, with what the assignment gave
Assigned(name, kind, arg, ref, o) ==
    /\ heap' = o.heap
    /\ fields' = o.fields
    /\ call' = [op |-> "set", field |-> name, kind |-> kind, arg |-> arg,
                ref |-> ref, result |-> IF o.exc = None THEN "return" ELSE "raise",
                exc |-> o.exc, out |-> <<>>]
    /\ UNCHANGED endianness
    /\ ModelUnchanged
    /\ ClassesUnchanged

\* field.value = an integer
SetInt ==
    \E x \in IntInputs :
        Assigned("f", "int", <<x>>, "-",
                 SetValue(heap, fields, "f", "int", x, Fmt(endianness)))

\* field.value = bytes: some chosen ones, or the bytes the last to_bytes gave
SetBytes ==
    \E data \in BytesInputs \cup {call.out} :
        /\ Explored(data, fields["f"].params.dtype, Fmt(endianness))
        /\ Assigned("f", "bytes", data, "-",
                    SetValue(heap, fields, "f", "bytes", data, Fmt(endianness)))

\* field.value = the list the caller holds
SetList ==
    \E name \in {"f", "g"} :
        Assigned(name, "list", heap["a"], "a",
                 SetValue(heap, fields, name, "list", "a", Fmt(endianness)))

\* field.value = AUTO
SetAuto ==
    Assigned("f", AUTO, <<>>, "-",
             SetValue(heap, fields, "f", AUTO, 0, Fmt(endianness)))

\* field.value = a value that is no integer, bytes or list
SetOther ==
    Assigned("f", "str", <<>>, "-",
             SetValue(heap, fields, "f", "str", 0, Fmt(endianness)))

\* field.to_bytes(), with what it gave
Serialized(name, o) ==
    /\ call' = [op |-> "to_bytes", field |-> name, kind |-> "-", arg |-> <<>>,
                ref |-> "-", result |-> IF o.exc = None THEN "return" ELSE "raise",
                exc |-> o.exc, out |-> o.out]
    /\ UNCHANGED <<endianness, heap, fields>>
    /\ ModelUnchanged
    /\ ClassesUnchanged

CallToBytes ==
    \E name \in {"f", "g"} :
        Serialized(name, ToBytes(heap, fields[name], Fmt(endianness)))

\* endianness.set(order)
EndiannessSet ==
    \E order \in {"little", "big"} :
        /\ endianness' = order
        /\ call' = [NoCall EXCEPT !.op = "endianness.set", !.result = "return"]
        /\ UNCHANGED <<heap, fields>>
        /\ ModelUnchanged
        /\ ClassesUnchanged

NextField ==
    SetInt \/ SetBytes \/ SetList \/ SetAuto \/ SetOther \/ CallToBytes
        \/ EndiannessSet

SpecField == InitField /\ [][NextField]_vars

(***************************************************************************)
(* The model classes: a program that creates model classes and gives       *)
(* requests to instances of the classes created so far                     *)
(***************************************************************************)
InitMeta ==
    /\ activate_encryption = TRUE
    /\ session = SessionReset
    /\ pairing_key_slot = -1
    /\ i_pairing_keys = InitPairingKeys
    /\ i_config = ConfigAllOnes
    /\ r_config = ConfigAllOnes
    /\ config_cache = NoConfig
    /\ command_buffer = <<>>
    /\ spi_fsm = SpiFsmReset
    /\ outcome = NoOutcome("init")
    /\ MessagesInit

\* class c(Parent[c], metaclass=MetaModel)
DefineClass ==
    \E c \in Classes \ defined :
        /\ Parent[c] \in defined
        /\ defined' = defined \cup {c}
        /\ registry' = MetaModelNew(registry, c)
        /\ dispatched' = [NoDispatch EXCEPT !.op = "class", !.class = c]
        /\ UNCHANGED <<endianness, heap, fields, call>>
        /\ ModelUnchanged

\* c().process_l2_request(request)
CallProcessL2Request ==
    \E c \in defined, request_type \in RequestTypes :
        /\ dispatched' = [op |-> "process_l2_request", class |-> c,
                          request |-> request_type,
                          handler |-> Dispatch(registry, request_type),
                          exc |-> Raised(Dispatch(registry, request_type))]
        /\ UNCHANGED <<endianness, heap, fields, call, defined, registry>>
        /\ ModelUnchanged

NextMeta == DefineClass \/ CallProcessL2Request

SpecMeta == InitMeta /\ [][NextMeta]_vars

(***************************************************************************)
(* Properties of the dispatcher                                            *)
(***************************************************************************)
\* the requests whose handler L2API leaves raising NotImplementedError
UnimplementedIds == {SLEEP, STARTUP, MUTABLE_FW_UPDATE, MUTABLE_FW_UPDATE_DATA, GET_LOG}

\* the last call was process_input
Processed == outcome.op = "process_input"

\* the last call returned exactly the one bare response of the given status
AnsweredBare(o, status) ==
    /\ o.kind = "return"
    /\ ~o.is_list
    /\ o.raw = <<RspToBytes(L2Response(status, <<>>))>>

\* the frame of the last call: checksum right, id registered, shape right
Dispatchable(frame) ==
    /\ HasValidCrc(frame)
    /\ ReqId(frame) \in L2Enum
    /\ Len(ReqData(frame)) >= ReqShape(ReqId(frame)).min
    /\ Len(ReqData(frame)) <= ReqShape(ReqId(frame)).max

\* C1 as stated: whatever the frame, process_input returns serialized
\* response frames and no exception escapes it
C1_NoExceptionEscapes ==
    Processed => (outcome.kind = "return" /\ Len(outcome.raw) >= 1)

\* C1, amended: process_input returns one or more serialized response frames
\* for every frame, except that the NotImplementedError of a request whose
\* handler is not implemented (Sleep, Startup, the firmware updates, Get_Log)
\* escapes to the caller; only L2ProcessingError is turned into a response
C1_OnlyUnimplementedEscapes ==
    Processed =>
        IF Dispatchable(outcome.frame) /\ ReqId(outcome.frame) \in UnimplementedIds
        THEN outcome.kind = "raise" /\ outcome.exc = "NotImplementedError"
        ELSE /\ outcome.kind = "return"
             /\ Len(outcome.raw) >= 1
             /\ \A i \in 1..Len(outcome.raw) : HasValidCrc(outcome.raw[i])

C1_Witness ==
    /\ Processed
    /\ ReqId(outcome.frame) = GET_LOG
    /\ outcome.kind = "raise"
    /\ outcome.exc = "NotImplementedError"

\* C2: a frame with a wrong checksum is answered with exactly one CRC_ERR
\* response, no handler runs, and session, active slot, configuration and
\* pairing keys are left as they were
C2_BadChecksum ==
    [][(outcome'.op = "process_input" /\ ~HasValidCrc(outcome'.frame)) =>
          /\ AnsweredBare(outcome', "CRC_ERR")
          /\ outcome'.handler = None
          /\ outcome'.l3 = None
          /\ UNCHANGED <<session, pairing_key_slot, i_config, r_config,
                         config_cache, i_pairing_keys>>]_vars

\* a session abort with a wrong checksum arrived during a session
C2_Witness ==
    /\ Processed
    /\ ~HasValidCrc(outcome.frame)
    /\ ReqId(outcome.frame) = ENCRYPTED_SESSION_ABT
    /\ session.established
    /\ pairing_key_slot = 1

\* C3: with a right checksum, an id the registry does not hold is answered
\* UNKNOWN_REQ, a registered id whose data field breaks the bounds of its
\* message is answered CRC_ERR, and no handler runs in either case
C3_UnknownOrMalformed ==
    (Processed /\ HasValidCrc(outcome.frame) /\ ~Dispatchable(outcome.frame)) =>
        /\ outcome.handler = None
        /\ outcome.l3 = None
        /\ IF ReqId(outcome.frame) \in L2Enum
           THEN AnsweredBare(outcome, "CRC_ERR")
           ELSE AnsweredBare(outcome, "UNKNOWN_REQ")

\* a Handshake request one byte short, its checksum right
C3_Witness ==
    /\ Processed
    /\ HasValidCrc(outcome.frame)
    /\ ReqId(outcome.frame) = HANDSHAKE
    /\ Len(ReqData(outcome.frame)) = KEY_SIZE
    /\ AnsweredBare(outcome, "CRC_ERR")

\* C4: when the handler raises L2ProcessingError with status s, the call
\* returns one bare response, not a list, of status s and empty data
C4_ProcessingErrorStatus ==
    (Processed /\ outcome.caught # None) =>
        /\ outcome.kind = "return"
        /\ ~outcome.is_list
        /\ Len(outcome.raw) = 1
        /\ RspFromBytes(outcome.raw[1]) = [status |-> outcome.caught, data |-> <<>>]

\* a handshake that named an unusable slot
C4_Witness ==
    /\ Processed
    /\ outcome.handler = "ts_l2_handshake"
    /\ outcome.caught = "GEN_ERR"
    /\ Len(outcome.raw) = 1

(***************************************************************************)
(* Properties of the access-control check                                  *)
(***************************************************************************)
Checked == outcome.op = "check_access_privileges"

SlotInRange == 0 <= pairing_key_slot /\ pairing_key_slot < S_HI_PUB_NB_SLOTS

\* bit number pairing_key_slot of the value the check was given is 1
SlotBitSet == (outcome.value \div Pow2(pairing_key_slot)) % 2 = 1

\* C5: with encryption active the check succeeds exactly when the active
\* slot s is one of 0..3 and bit s of the field value is 1; it raises the
\* Unauthorized error when s is one of 0..3 and bit s is 0; it raises the
\* fatal RuntimeError when s is outside 0..3, the unpaired -1 included
C5_AccessCheck ==
    (Checked /\ activate_encryption) =>
        /\ outcome.exc = "ok" <=> (SlotInRange /\ SlotBitSet)
        /\ (SlotInRange /\ ~SlotBitSet) => outcome.exc = "L3ProcessingErrorUnauthorized"
        /\ ~SlotInRange => outcome.exc = "RuntimeError"

\* the slot just past the range, with the bit of that number set
C5_Witness ==
    /\ Checked
    /\ activate_encryption
    /\ pairing_key_slot = S_HI_PUB_NB_SLOTS
    /\ outcome.value = Pow2(S_HI_PUB_NB_SLOTS)
    /\ outcome.exc = "RuntimeError"

\* C6: with encryption disabled the check succeeds whatever the field value
\* and whatever the active slot
C6_DisabledAlwaysOk ==
    (Checked /\ ~activate_encryption) => (outcome.exc = "ok" /\ outcome.kind = "return")

\* unpaired, no bit set, and still granted
C6_Witness ==
    /\ Checked
    /\ ~activate_encryption
    /\ pairing_key_slot = -1
    /\ outcome.value = 0
    /\ outcome.exc = "ok"

(***************************************************************************)
(* Properties of the session life cycle                                    *)
(***************************************************************************)
\* the call o was a Handshake request that the handler answered REQ_OK
HandshakeOk(o) ==
    /\ o.op = "process_input"
    /\ o.handler = "ts_l2_handshake"
    /\ o.kind = "return"
    /\ o.caught = None

\* the fields of a Handshake request frame
EHpub(frame) == SubSeq(ReqData(frame), 1, KEY_SIZE)

PkeyIndex(frame) == ReqData(frame)[KEY_SIZE + 1]

Unpaired == session = SessionReset /\ pairing_key_slot = -1

\* C7: after a session abort request and after a power-off the session is
\* unestablished with keys and counters cleared and the active slot is -1,
\* and a model in that condition stays in it until a handshake succeeds
C7_InvalidateSession ==
    [][/\ (\/ outcome'.op = "power_off"
           \/ /\ outcome'.op = "process_input"
              /\ outcome'.handler = "ts_l2_encrypted_session_abt") => Unpaired'
       /\ (Unpaired /\ ~HandshakeOk(outcome')) => Unpaired']_vars

\* a session on slot 1 ended by a session abort request
C7_Witness ==
    /\ Processed
    /\ outcome.handler = "ts_l2_encrypted_session_abt"
    /\ outcome.before = 1
    /\ Unpaired

\* C8: a handshake received during a session invalidates that session
\* first: when it fails the model is left unestablished with slot -1, when
\* it succeeds the keys, counters and slot are those of the new handshake
C8_Rehandshake ==
    [][(/\ session.established
        /\ outcome'.op = "process_input"
        /\ outcome'.handler = "ts_l2_handshake") =>
          IF HandshakeOk(outcome')
          THEN /\ pairing_key_slot' = PkeyIndex(outcome'.frame)
               /\ \E e \in EphemeralSecrets :
                      session' = ProcessHandshake(
                                     i_pairing_keys[PkeyIndex(outcome'.frame)].value,
                                     EHpub(outcome'.frame), e)
          ELSE Unpaired']_vars

\* a handshake naming a blank slot, received during a session on slot 0
C8_Witness ==
    /\ Processed
    /\ outcome.handler = "ts_l2_handshake"
    /\ outcome.before = 0
    /\ PkeyIndex(outcome.frame) = 2
    /\ outcome.caught = "GEN_ERR"
    /\ Unpaired

\* C9: a handshake naming slot k succeeds exactly when k is one of 0..3 and
\* the slot holds a key; it then leaves the session established and the
\* active slot k; a failed handshake leaves the slot -1, and nothing but a
\* successful handshake gives the active slot a value other than -1
C9_HandshakeSlot ==
    [][/\ (outcome'.op = "process_input" /\ outcome'.handler = "ts_l2_handshake") =>
            /\ HandshakeOk(outcome') <=>
                   /\ PkeyIndex(outcome'.frame) < S_HI_PUB_NB_SLOTS
                   /\ i_pairing_keys[PkeyIndex(outcome'.frame)].kind = "SET"
            /\ IF HandshakeOk(outcome')
               THEN /\ session'.established
                    /\ pairing_key_slot' = PkeyIndex(outcome'.frame)
               ELSE /\ ~session'.established
                    /\ pairing_key_slot' = -1
       /\ (pairing_key_slot' # -1 /\ pairing_key_slot' # pairing_key_slot) =>
            HandshakeOk(outcome')]_vars

\* an unpaired model after a handshake on slot 1
C9_Witness ==
    /\ HandshakeOk(outcome)
    /\ outcome.before = -1
    /\ PkeyIndex(outcome.frame) = 1
    /\ session.established
    /\ pairing_key_slot = 1

\* the sealed command an Encrypted_Cmd frame carries
L3Chunk(frame) == SubSeq(ReqData(frame), 3, Len(ReqData(frame)))

\* C10: with encryption active and no session, an Encrypted_Cmd request is
\* answered with one error response, no L3 command runs, decrypt_command
\* gives no plaintext for what it carries, and configuration, pairing keys,
\* session and active slot are left as they were
C10_NoSessionNoCommand ==
    [][(/\ activate_encryption
        /\ ~session.established
        /\ outcome'.op = "process_input"
        /\ ReqId(outcome'.frame) = ENCRYPTED_CMD) =>
          /\ outcome'.kind = "return"
          /\ Len(outcome'.raw) = 1
          /\ RspFromBytes(outcome'.raw[1]).status \in {"GEN_ERR", "CRC_ERR"}
          /\ outcome'.l3 = None
          /\ Dispatchable(outcome'.frame) =>
                 ~DecryptCommand(Model, L3Chunk(outcome'.frame)).ok
          /\ UNCHANGED <<i_config, r_config, i_pairing_keys, session,
                         pairing_key_slot>>]_vars

\* a well-formed Encrypted_Cmd request refused for want of a session
C10_Witness ==
    /\ Processed
    /\ activate_encryption
    /\ outcome.before = -1
    /\ Dispatchable(outcome.frame)
    /\ ReqId(outcome.frame) = ENCRYPTED_CMD
    /\ outcome.handler = "ts_l2_encrypted_cmd"
    /\ outcome.caught = "GEN_ERR"
    /\ Unpaired

(***************************************************************************)
(* Properties of power-off and of the configuration cache                  *)
(***************************************************************************)
\* C11: power_off leaves the session unestablished, the active slot -1, the
\* command buffer empty, the transport FSM idle and the configuration cache
\* cleared, and keeps both register banks and the pairing-key slots
C11_PowerOff ==
    [][outcome'.op = "power_off" =>
          /\ session' = SessionReset
          /\ pairing_key_slot' = -1
          /\ command_buffer' = <<>>
          /\ spi_fsm' = SpiFsmReset
          /\ config_cache' = NoConfig
          /\ UNCHANGED <<i_config, r_config, i_pairing_keys, activate_encryption>>]_vars

\* switched off during a session on slot 1, after a register write and a
\* pairing-key write
C11_Witness ==
    /\ outcome.op = "power_off"
    /\ outcome.before = 1
    /\ i_config # ConfigAllOnes
    /\ i_pairing_keys[2].kind = "SET"
    /\ Unpaired
    /\ command_buffer = <<>>
    /\ spi_fsm = SpiFsmReset

\* the effective configuration as the next access would read it
EffectiveConfig == Config(Model)

\* the last call ran an I_Config_Write that returned OK
WroteOk(o) ==
    /\ o.l3 = "i_config_write"
    /\ o.l3_result = <<L3ResultFieldEnum.OK>>

\* the register and the bit the I_Config_Write of the call named
WrittenRegister(o) == RegisterAt(U16(o.command[2], o.command[3]))

WrittenBit(o) == o.command[4]

\* i_config AND r_config, register by register, as stored in this state
StoredAnd == [r \in Registers |-> i_config[r] \cap r_config[r]]

L3Step == outcome.op = "init" /\ outcome'.op = "process_l3_command"

WrittenAddress(o) == U16(o.command[2], o.command[3])

\* the command is an I_Config_Write / a Pairing_Key_Write
IsIConfigWrite(o) == o.command[1] = L3Enum.I_CONFIG_WRITE
IsPairingKeyWrite(o) == o.command[1] = L3Enum.PAIRING_KEY_WRITE

\* the slot and the key a Pairing_Key_Write names
KeySlotOf(o) == U16(o.command[2], o.command[3])
KeyOf(o) == SubSeq(o.command, 5, 4 + KEY_SIZE)

\* the session in place may write the configuration / pairing-key slot k
MayWriteIConfig ==
    ~activate_encryption
    \/ /\ pairing_key_slot \in 0..(S_HI_PUB_NB_SLOTS - 1)
       /\ pairing_key_slot \in EffectiveConfig["CFG_UAP_I_CONFIG_WRITE"]
MayWriteKey(k) ==
    ~activate_encryption
    \/ /\ pairing_key_slot \in 0..(S_HI_PUB_NB_SLOTS - 1)
       /\ (8 * k + pairing_key_slot) \in EffectiveConfig["CFG_UAP_PAIRING_KEY_WRITE"]

\* C14: an I_Config_Write of (r, i) by an authorized session, r a register of
\* the enumeration: for i in 0..31 the result is OK and register r of the
\* written bank loses bit i and nothing else, every other register and the
\* other bank keeping their values; for i outside 0..31 the result is FAIL
\* and no register changes
C14_IConfigWrite ==
    [][(/\ L3Step
        /\ IsIConfigWrite(outcome')
        /\ IsRegisterAddress(WrittenAddress(outcome'))
        /\ MayWriteIConfig)
       => IF WrittenBit(outcome') \in AllBits
          THEN /\ outcome'.l3_result = <<L3ResultFieldEnum.OK>>
               /\ i_config' = [i_config EXCEPT ![WrittenRegister(outcome')] =
                                   @ \ {WrittenBit(outcome')}]
               /\ r_config' = r_config
          ELSE /\ outcome'.l3_result = <<L3ResultFieldEnum.FAIL>>
               /\ UNCHANGED <<i_config, r_config>>]_vars

\* a session on a slot wrote bit 7 of a register that had lost bits before
C14_Witness ==
    /\ WroteOk(outcome)
    /\ activate_encryption
    /\ WrittenBit(outcome) = 7
    /\ i_config["CFG_START_UP"] = AllBits \ {0, 5, 7, 31}

ByteBit(x, b) == (x \div Pow2(b)) % 2

\* C19: a Pairing_Key_Write on one of the four slots by an authorized
\* session: a BLANK slot takes the key given and the result is OK; a slot
\* holding a key keeps, bit by bit, the AND of its key and the key given and
\* the result is OK; an INVALID slot stays INVALID and the result is FAIL;
\* the other slots keep their content
C19_PairingKeyWrite ==
    [][(/\ L3Step
        /\ IsPairingKeyWrite(outcome')
        /\ KeySlotOf(outcome') < S_HI_PUB_NB_SLOTS
        /\ MayWriteKey(KeySlotOf(outcome')))
       => LET k == KeySlotOf(outcome')
              key == KeyOf(outcome')
              old == i_pairing_keys[k]
              new == i_pairing_keys'[k]
          IN  /\ \A j \in DOMAIN i_pairing_keys \ {k} :
                     i_pairing_keys'[j] = i_pairing_keys[j]
              /\ CASE old.kind = BLANK ->
                          /\ outcome'.l3_result = <<L3ResultFieldEnum.OK>>
                          /\ new = SlotSet(key)
                   [] old.kind = INVALID ->
                          /\ outcome'.l3_result = <<L3ResultFieldEnum.FAIL>>
                          /\ new = old
                   [] OTHER ->
                          /\ outcome'.l3_result = <<L3ResultFieldEnum.OK>>
                          /\ new.kind = "SET"
                          /\ Len(new.value) = KEY_SIZE
                          /\ \A i \in 1..KEY_SIZE, b \in 0..7 :
                                 ByteBit(new.value[i], b) =
                                     ByteBit(old.value[i], b) * ByteBit(key[i], b)]_vars

\* a session on slot 0 wrote a key on slot 1, which held one: the slot now
\* holds neither the old key nor the new one
C19_Witness ==
    /\ outcome.op = "process_l3_command"
    /\ outcome.l3 = "pairing_key_write"
    /\ outcome.l3_result = <<L3ResultFieldEnum.OK>>
    /\ activate_encryption
    /\ pairing_key_slot = 0
    /\ KeySlotOf(outcome) = 1
    /\ i_pairing_keys[1].kind = "SET"
    /\ i_pairing_keys[1].value # InitPairingKeys[1].value
    /\ i_pairing_keys[1].value # KeyOf(outcome)

\* C20: a Pairing_Key_Write on a slot index outside the four slots has the
\* result UNAUTHORIZED and leaves every pairing-key slot as it was
C20_KeySlotOutOfRange ==
    [][(/\ L3Step
        /\ IsPairingKeyWrite(outcome')
        /\ KeySlotOf(outcome') \notin 0..(S_HI_PUB_NB_SLOTS - 1))
       => /\ outcome'.l3_result = <<L3ResultFieldEnum.UNAUTHORIZED>>
          /\ i_pairing_keys' = i_pairing_keys]_vars

\* a session on a slot wrote a key on slot 4
C20_Witness ==
    /\ outcome.op = "process_l3_command"
    /\ IsPairingKeyWrite(outcome)
    /\ KeySlotOf(outcome) = S_HI_PUB_NB_SLOTS
    /\ activate_encryption
    /\ outcome.l3_result = <<L3ResultFieldEnum.UNAUTHORIZED>>
    /\ i_pairing_keys = InitPairingKeys

(***************************************************************************)
(* Properties of the configuration objects across sequences of requests    *)
(***************************************************************************)
\* C16 as stated: every register of i_config keeps the value it had at
\* construction
C16_IConfigReadOnly == i_config = ConfigAllOnes

\* C16: i_config changes in one way only, a successful I_Config_Write of
\* (r, i) taking bit i out of register r of i_config; no request, abort or
\* power cycle changes it otherwise, and no step changes r_config
C16_IConfigOnlyCleared ==
    [][/\ r_config' = r_config
       /\ i_config' # i_config =>
              /\ WroteOk(outcome')
              /\ i_config' = [i_config EXCEPT ![WrittenRegister(outcome')] =
                                  @ \ {WrittenBit(outcome')}]
       /\ (WroteOk(outcome') /\ outcome' # outcome) =>
              WrittenBit(outcome') \notin i_config'[WrittenRegister(outcome')]]_vars

\* bit 31 of CFG_START_UP has just been written: i_config lost it, r_config
\* is as constructed
C16_Witness ==
    /\ WroteOk(outcome)
    /\ WrittenRegister(outcome) = "CFG_START_UP"
    /\ i_config["CFG_START_UP"] = AllBits \ {WrittenBit(outcome)}
    /\ r_config = ConfigAllOnes

\* C17: no step sets a bit of a register of i_config or of r_config, so the
\* AND of the two after a step is, register by register, a subset of the AND
\* before it
C17_Monotonic ==
    [][\A r \in Registers :
           /\ i_config'[r] \subseteq i_config[r]
           /\ r_config'[r] \subseteq r_config[r]
           /\ ConfigAnd(i_config', r_config')[r] \subseteq ConfigAnd(i_config, r_config)[r]]_vars

\* two registers have lost a bit, the last write being the one of bit 1
C17_Witness ==
    /\ WroteOk(outcome)
    /\ WrittenBit(outcome) = 1
    /\ i_config["CFG_UAP_I_CONFIG_WRITE"] = AllBits \ {1}
    /\ i_config["CFG_START_UP"] = AllBits \ {31}
    /\ ConfigAnd(i_config, r_config) = i_config

(***************************************************************************)
(* Properties of the resend request                                        *)
(***************************************************************************)
\* the request the transport hands to the dispatcher in a step: the bytes it
\* held followed by the bytes the step brings
Dispatched == spi_fsm.rx \o outcome'.frame

\* the step is an exchange whose bytes complete a request, which is dispatched
IsDispatch ==
    /\ outcome'.op = "spi_send"
    /\ spi_fsm.state = "RECEIVING"
    /\ FrameComplete(Dispatched)

\* the request dispatched is a well-formed Resend request
IsResend ==
    /\ IsDispatch
    /\ Dispatchable(Dispatched)
    /\ ReqId(Dispatched) = RESEND

\* C18: a request other than a resend that is answered with the response
\* frames R, an error status included, leaves R in the buffer; a resend with
\* R in the buffer is answered with exactly R, runs no other handler and
\* leaves every part of the model but the transport as it was, so that the
\* next resend is answered with R again; no step but the answer to a request
\* and a power-off changes the buffer; the buffer is empty at construction
\* and after a power-off, and a resend on an empty buffer is answered with
\* the bare status GEN_ERR
C18_Resend ==
    /\ command_buffer = <<>>
    /\ [][/\ outcome'.op = "power_off" => command_buffer' = <<>>
          /\ (IsDispatch /\ ~IsResend)
                 => /\ outcome'.kind = "received"
                    /\ spi_fsm'.tx # <<>>
                    /\ spi_fsm'.tx = ProcessInput(Model, Dispatched, 1).raw
                    /\ command_buffer' = spi_fsm'.tx
          /\ IsResend
                 => /\ UNCHANGED <<activate_encryption, session, pairing_key_slot,
                                   i_pairing_keys, i_config, r_config, config_cache,
                                   command_buffer>>
                    /\ outcome'.kind = "received"
                    /\ outcome'.handler = "ts_l2_resend"
                    /\ spi_fsm'.tx = IF command_buffer = <<>>
                                     THEN <<RspToBytes(L2Response("GEN_ERR", <<>>))>>
                                     ELSE command_buffer
          /\ (~IsDispatch /\ outcome'.op # "power_off")
                 => command_buffer' = command_buffer]_vars

\* a resend has just been answered with the buffered answer
\* to a frame with a bad checksum, while a session is in place
C18_Witness ==
    /\ outcome.op = "spi_send"
    /\ outcome.handler = "ts_l2_resend"
    /\ spi_fsm.state = "PROCESSING"
    /\ spi_fsm.tx = command_buffer
    /\ command_buffer = <<RspToBytes(L2Response("CRC_ERR", <<>>))>>
    /\ session.established

(***************************************************************************)
(* Properties of the pairing keys across sequences of requests             *)
(***************************************************************************)
\* C21: the pairing-key slots change in one way only, a Pairing_Key_Write
\* with result OK changing the slot it names; every other call (Get_Info,
\* Handshake accepted or refused, Encrypted_Session_Abt, Resend,
\* I_Config_Write, frames refused, power-off, power-on) leaves the content
\* and the kind of the four slots as they were
C21_KeysOnlyWritten ==
    [][i_pairing_keys' # i_pairing_keys =>
           /\ outcome'.op = "process_input"
           /\ outcome'.l3 = "pairing_key_write"
           /\ outcome'.l3_result = <<L3ResultFieldEnum.OK>>
           /\ \A k \in DOMAIN i_pairing_keys :
                  i_pairing_keys'[k] # i_pairing_keys[k] =>
                      k = U16(outcome'.command[2], outcome'.command[3])]_vars

\* slot 2 was written, and a Handshake has since been refused
C21_Witness ==
    /\ Processed
    /\ ReqId(outcome.frame) = HANDSHAKE
    /\ AnsweredBare(outcome, "GEN_ERR")
    /\ i_pairing_keys[2].kind = "SET"
    /\ i_pairing_keys # InitPairingKeys

(***************************************************************************)
(* Properties of Get_Info                                                  *)
(***************************************************************************)
\* the call was process_input on a well-formed Get_Info request
IsGetInfo(o) ==
    /\ o.op = "process_input"
    /\ Dispatchable(o.frame)
    /\ ReqId(o.frame) = GET_INFO

AskedObject(o) == ReqData(o.frame)[1]
AskedBlock(o) == ReqData(o.frame)[2]

\* the call returned one response frame, of this status and payload
Answered(o, status, payload) ==
    /\ o.kind = "return"
    /\ ~o.is_list
    /\ Len(o.raw) = 1
    /\ o.raw[1][1] = L2StatusEnum[status]
    /\ o.raw[1][2] = Len(payload)
    /\ SubSeq(o.raw[1], 3, Len(o.raw[1]) - 2) = payload
    /\ HasValidCrc(o.raw[1])

\* C22: a well-formed Get_Info request is answered REQ_OK with, for the
\* certificate and a block b of the enumeration, the bytes 128*b to
\* 128*(b+1) of the certificate, and for CHIP_ID, RISCV_FW_VERSION and
\* SPECT_FW_VERSION the whole object whatever the block index
C22_GetInfo ==
    IsGetInfo(outcome) =>
        LET b == AskedBlock(outcome)
            id == AskedObject(outcome)
        IN  /\ (id = ObjectIdEnum.X509_CERTIFICATE /\ b \in BlockIndexEnum) =>
                   Answered(outcome, "REQ_OK",
                            [i \in 1..CHUNK_SIZE |-> X509_CERTIFICATE[CHUNK_SIZE * b + i]])
            /\ id = ObjectIdEnum.CHIP_ID => Answered(outcome, "REQ_OK", CHIP_ID)
            /\ id = ObjectIdEnum.RISCV_FW_VERSION =>
                   Answered(outcome, "REQ_OK", RISCV_FW_VERSION)
            /\ id = ObjectIdEnum.SPECT_FW_VERSION =>
                   Answered(outcome, "REQ_OK", SPECT_FW_VERSION)

\* the last block of the certificate has been served to a paired host
C22_Witness ==
    /\ IsGetInfo(outcome)
    /\ AskedObject(outcome) = ObjectIdEnum.X509_CERTIFICATE
    /\ AskedBlock(outcome) = 3
    /\ outcome.raw[1][1] = L2StatusEnum.REQ_OK
    /\ outcome.raw[1][3] = X509_CERTIFICATE[3 * CHUNK_SIZE + 1]
    /\ session.established

\* the object ids of TsL2GetInfoRequest.ObjectIdEnum
KnownObjectIds == {ObjectIdEnum[n] : n \in DOMAIN ObjectIdEnum}

\* C23: a Get_Info request for an object id outside the enumeration is
\* answered GEN_ERR with no payload, and one for the certificate at a block
\* index outside the enumeration is answered GEN_ERR; neither changes the
\* session, the slot in use, the pairing keys, the configuration objects,
\* the command buffer or the transport
C23_GetInfoRefused ==
    [][(/\ IsGetInfo(outcome')
        /\ \/ AskedObject(outcome') \notin KnownObjectIds
           \/ /\ AskedObject(outcome') = ObjectIdEnum.X509_CERTIFICATE
              /\ AskedBlock(outcome') \notin BlockIndexEnum)
       => /\ Answered(outcome', "GEN_ERR", <<>>)
          /\ UNCHANGED <<activate_encryption, session, pairing_key_slot,
                         i_pairing_keys, i_config, r_config, config_cache,
                         command_buffer, spi_fsm>>]_vars

\* a paired host asked for the certificate one block past its end
C23_Witness ==
    /\ IsGetInfo(outcome)
    /\ AskedObject(outcome) = ObjectIdEnum.X509_CERTIFICATE
    /\ AskedBlock(outcome) = 4
    /\ outcome.raw[1][1] = L2StatusEnum.GEN_ERR
    /\ session.established
    /\ pairing_key_slot = 1

(***************************************************************************)
(* Properties of encrypt_result and decrypt_command                        *)
(***************************************************************************)
\* what the last call of encrypt_result or decrypt_command was given, and
\* what it returned
Given(o) == o.frame
Returned(o) == o.raw[1]

\* C27: with encryption disabled, encrypt_result(x) is x followed by
\* ENCRYPTION_TAG_LEN zero bytes, decrypt_command(c) is c without its last
\* ENCRYPTION_TAG_LEN bytes, decrypt_command(encrypt_result(x)) is x, and
\* neither call changes the session
C27_DisabledIsIdentity ==
    [][~activate_encryption =>
          /\ outcome'.op = "encrypt_result" =>
                 LET x == Given(outcome')
                     y == Returned(outcome')
                 IN  /\ Len(y) = Len(x) + ENCRYPTION_TAG_LEN
                     /\ \A i \in 1..Len(y) : y[i] = IF i <= Len(x) THEN x[i] ELSE 0
                     /\ DecryptCommand(Model, y).ok
                     /\ DecryptCommand(Model, y).bytes = x
                     /\ session' = session
          /\ outcome'.op = "decrypt_command" =>
                 LET c == Given(outcome')
                     n == IF Len(c) > ENCRYPTION_TAG_LEN
                          THEN Len(c) - ENCRYPTION_TAG_LEN ELSE 0
                 IN  /\ outcome'.value = 1
                     /\ Returned(outcome') = [i \in 1..n |-> c[i]]
                     /\ session' = session]_vars

\* with encryption disabled, a result longer than the tag went through
\* encrypt_result
C27_Witness ==
    /\ ~activate_encryption
    /\ outcome.op = "encrypt_result"
    /\ Len(Given(outcome)) = ENCRYPTION_TAG_LEN + 1
    /\ Len(Returned(outcome)) = 2 * ENCRYPTION_TAG_LEN + 1

\* C28: no request, command, abort, power-off or power-on changes
\* activate_encryption, and a command that runs is the one the mode of the
\* model gives: opened with the keys of the session when encryption is
\* active, taken in clear less the tag when it is not
C28_ModeFixed ==
    [][/\ activate_encryption' = activate_encryption
       /\ (outcome'.op = "process_input" /\ outcome'.l3 # None) =>
              outcome'.command =
                  IF activate_encryption
                  THEN Open(session.k_cmd, session.nonce_cmd, L3Chunk(outcome'.frame)).bytes
                  ELSE SubSeq(L3Chunk(outcome'.frame), 1,
                              Len(L3Chunk(outcome'.frame)) - ENCRYPTION_TAG_LEN)]_vars

\* a model with encryption active has run a Pairing_Key_Write on slot 2 and
\* has since been switched off and on
C28_Witness ==
    /\ outcome.op = "power_on"
    /\ activate_encryption
    /\ command_buffer = <<>>
    /\ i_pairing_keys[2].kind = "SET"

\* the last call invalidated the session: a Handshake or Encrypted_Session_Abt
\* request was dispatched, or the model was switched off
Invalidated(o) ==
    \/ o.op = "power_off"
    \/ /\ o.op = "process_input"
       /\ Dispatchable(o.frame)
       /\ ReqId(o.frame) \in {HANDSHAKE, ENCRYPTED_SESSION_ABT}

\* C29: in an established session with encryption active, encrypt_result
\* seals with the current nonce_resp and leaves it one higher, a
\* decrypt_command that gives a plaintext leaves nonce_cmd one higher and one
\* that gives none leaves the session as it was; the keys stay; a counter
\* goes down, or a key changes, only in a call that invalidates the session,
\* which leaves both counters at 0 and the keys zeroed or those of a new
\* handshake
C29_Nonces ==
    [][/\ (outcome'.op = "encrypt_result" /\ activate_encryption /\ session.established)
              => /\ Returned(outcome') =
                        Seal(session.k_res, session.nonce_resp, Given(outcome'))
                 /\ session' = [session EXCEPT !.nonce_resp = @ + 1]
       /\ (outcome'.op = "decrypt_command" /\ activate_encryption /\ session.established)
              => IF outcome'.value = 1
                 THEN /\ Given(outcome') =
                             Seal(session.k_cmd, session.nonce_cmd, Returned(outcome'))
                      /\ session' = [session EXCEPT !.nonce_cmd = @ + 1]
                 ELSE session' = session
       /\ (\/ session'.nonce_resp < session.nonce_resp
           \/ session'.nonce_cmd < session.nonce_cmd
           \/ session.established /\ session'.k_res # session.k_res
           \/ session.established /\ session'.k_cmd # session.k_cmd)
              => /\ Invalidated(outcome')
                 /\ session'.nonce_resp = 0
                 /\ session'.nonce_cmd = 0
                 /\ session' = SessionReset \/ HandshakeOk(outcome')]_vars

\* a second result has just been sealed in a session that opened one command
C29_Witness ==
    /\ outcome.op = "encrypt_result"
    /\ activate_encryption
    /\ session.established
    /\ session.nonce_resp = 2
    /\ session.nonce_cmd = 1

\* C30: in an established session with encryption active, decrypt_command
\* gives None, and leaves the model as it was, for every command that is not
\* one sealed with the host-to-chip key and the current nonce: one byte
\* altered at any position, sealed with the chip-to-host key, cut or
\* lengthened; an Encrypted_Cmd request carrying such a command is answered
\* with the bare status GEN_ERR and runs no L3 command, whatever is wrong
C30_BadCiphertext ==
    [][(/\ activate_encryption
        /\ session.established
        /\ \A x \in CryptStrings :
               Seal(session.k_cmd, session.nonce_cmd, x) \notin
                   {Given(outcome'), L3Chunk(outcome'.frame)})
       => /\ outcome'.op = "decrypt_command" =>
                 /\ outcome'.value = 0
                 /\ Returned(outcome') = <<>>
                 /\ UNCHANGED <<activate_encryption, session, pairing_key_slot,
                                i_pairing_keys, i_config, r_config, config_cache,
                                command_buffer, spi_fsm>>
          /\ (outcome'.op = "process_input" /\ Dispatchable(outcome'.frame)
                  /\ ReqId(outcome'.frame) = ENCRYPTED_CMD) =>
                 /\ AnsweredBare(outcome', "GEN_ERR")
                 /\ outcome'.l3 = None
                 /\ outcome'.command = <<>>
                 /\ UNCHANGED <<activate_encryption, session, pairing_key_slot,
                                i_pairing_keys, i_config, r_config, config_cache>>]_vars

\* a result sealed with the chip-to-host key was handed to decrypt_command
\* in a session that had opened a command before
C30_Witness ==
    /\ outcome.op = "decrypt_command"
    /\ activate_encryption
    /\ session.established
    /\ session.nonce_cmd = 1
    /\ outcome.value = 0
    /\ Given(outcome) = Seal(session.k_res, session.nonce_cmd, IConfigWriteCmd(64, 1))

(***************************************************************************)
(* C24                                                                     *)
(***************************************************************************)
\* C24: drive_csn_low is accepted in IDLE only: there it starts a reception
\* with nothing received, elsewhere it is refused and changes nothing;
\* drive_csn_high is accepted in every state and leaves the transport IDLE
\* with nothing received, so that nothing is ever held while IDLE; and a
\* reception only ever appends the bytes sent to those received since the
\* chip select went low, until they make one whole frame, which is the
\* request dispatched: bytes from before a CSN-high are in no request made
\* after the next CSN-low
C24_ChipSelect ==
    /\ spi_fsm.state = "IDLE" => spi_fsm.rx = <<>>
    /\ [][/\ outcome'.op = "spi_drive_csn_low" =>
                IF spi_fsm.state = "IDLE"
                THEN /\ outcome'.kind = "return"
                     /\ spi_fsm'.state = "RECEIVING"
                     /\ spi_fsm'.rx = <<>>
                ELSE /\ outcome'.kind = "rejected"
                     /\ Model' = Model
          /\ outcome'.op = "spi_drive_csn_high" =>
                /\ outcome'.kind = "return"
                /\ spi_fsm'.state = "IDLE"
                /\ spi_fsm'.rx = <<>>
          /\ (outcome'.op = "spi_send" /\ spi_fsm.state = "RECEIVING") =>
                IF FrameComplete(Dispatched)
                THEN /\ spi_fsm'.rx = <<>>
                     /\ \E o \in {ProcessInput(Model, Dispatched, 1)} :
                            /\ outcome'.handler = o.handler
                            /\ o.kind = "return" => spi_fsm'.tx = o.raw
                            /\ session' = o.m.session
                ELSE /\ spi_fsm'.rx = Dispatched
                     /\ outcome'.handler = None
                     /\ command_buffer' = command_buffer
          /\ spi_fsm'.state = "IDLE" => spi_fsm'.rx = <<>>
          /\ (outcome'.op = "spi_send" /\ spi_fsm.state = "IDLE") =>
                /\ outcome'.kind = "rejected"
                /\ Model' = Model]_vars

\* a CSN-high has given up the first bytes of a request and left the
\* transport IDLE with nothing received
C24_Witness ==
    /\ outcome.op = "spi_drive_csn_high"
    /\ outcome.frame # <<>>
    /\ spi_fsm.state = "IDLE"
    /\ spi_fsm.rx = <<>>

(***************************************************************************)
(* C25                                                                     *)
(***************************************************************************)
\* a step is a transport cycle: an exchange made once a request has been
\* dispatched
IsTransportCycle == outcome'.op = "spi_send" /\ spi_fsm.state \in {"PROCESSING", "SENDING"}

\* C25: every transport cycle takes exactly one decision of the busy
\* schedule, the next one in its cycle, and no other step takes any (a
\* power-off rewinds the schedule); a cycle whose decision is busy returns
\* the busy indication and no response data, and leaves the pending
\* response frames and the state of the transport as they were; a cycle
\* whose decision is not busy, with a response pending, returns the first
\* pending frame whole, a frame with a valid checksum
C25_BusySchedule ==
    [][/\ IsTransportCycle =>
            /\ spi_fsm'.busy = (spi_fsm.busy % Len(BusySchedule)) + 1
            /\ IF BusySchedule[spi_fsm.busy]
               THEN /\ outcome'.kind = "busy"
                    /\ outcome'.raw = <<>>
                    /\ spi_fsm'.tx = spi_fsm.tx
                    /\ spi_fsm'.state = spi_fsm.state
               ELSE /\ spi_fsm'.state = "SENDING"
                    /\ IF spi_fsm.tx = <<>>
                       THEN outcome'.kind = "no_response" /\ outcome'.raw = <<>>
                       ELSE /\ outcome'.kind = "return"
                            /\ outcome'.raw = <<Head(spi_fsm.tx)>>
                            /\ HasValidCrc(Head(spi_fsm.tx))
       /\ ~IsTransportCycle =>
            \/ spi_fsm'.busy = spi_fsm.busy
            \/ outcome'.op = "power_off" /\ spi_fsm'.busy = SpiFsmReset.busy]_vars

\* a second busy cycle in a row has left both frames of a response pending
C25_Witness ==
    /\ outcome.op = "spi_send"
    /\ outcome.kind = "busy"
    /\ spi_fsm.state = "PROCESSING"
    /\ spi_fsm.busy = 3
    /\ Len(spi_fsm.tx) = 2

(***************************************************************************)
(* C26                                                                     *)
(***************************************************************************)
\* a response frame is whole: status, length, that many bytes of data, and
\* the checksum of what precedes it
IsWholeFrame(raw) ==
    /\ Len(raw) >= 4
    /\ Len(raw) = raw[2] + 4
    /\ HasValidCrc(raw)

\* what the handlers answer to the request a step dispatches
Handled == ProcessInputInner(Model, Dispatched, 1)

\* C26: when the request dispatched is answered with n responses, the
\* frames process_input returns, which are the frames the transport then
\* holds, are n, each of them whole with a valid checksum, the i-th being the
\* serialisation of the i-th response; until then the transport holds none;
\* afterwards a transport cycle that is not busy hands over the first frame
\* held and keeps the others in their order, a busy cycle keeps them all,
\* and the frames held change in no other way while the host goes on with
\* the exchange (a CSN-high or a power-off gives the others up)
C26_ResponseFrames ==
    /\ spi_fsm.tx = <<>>
    /\ [][/\ (outcome'.op = "spi_send" /\ spi_fsm.state = "RECEIVING") =>
                /\ spi_fsm.tx = <<>>
                /\ IF FrameComplete(Dispatched) /\ Handled.kind = "return"
                   THEN /\ ProcessInput(Model, Dispatched, 1).raw = spi_fsm'.tx
                        /\ Len(spi_fsm'.tx) = Len(Handled.rsps)
                        /\ \A i \in 1..Len(Handled.rsps) :
                               /\ IsWholeFrame(spi_fsm'.tx[i])
                               /\ RspFromBytes(spi_fsm'.tx[i]) = Handled.rsps[i]
                   ELSE spi_fsm'.tx = <<>>
          /\ IsTransportCycle =>
                IF BusySchedule[spi_fsm.busy] \/ spi_fsm.tx = <<>>
                THEN outcome'.raw = <<>> /\ spi_fsm'.tx = spi_fsm.tx
                ELSE outcome'.raw = <<Head(spi_fsm.tx)>> /\ spi_fsm'.tx = Tail(spi_fsm.tx)
          /\ outcome'.op \in {"spi_drive_csn_high", "power_off"} => spi_fsm'.tx = <<>>
          /\ (outcome'.op = "spi_drive_csn_low" \/ spi_fsm.state = "IDLE")
                => spi_fsm'.tx = spi_fsm.tx]_vars

\* the first of the two frames that answer a Ping has been handed over: the
\* frame handed over and the one still held are the two of the response
\* buffer, in its order
C26_Witness ==
    /\ outcome.op = "spi_send"
    /\ outcome.kind = "return"
    /\ Len(command_buffer) = 2
    /\ outcome.raw = <<command_buffer[1]>>
    /\ spi_fsm.tx = <<command_buffer[2]>>
    /\ command_buffer[1] # command_buffer[2]

(***************************************************************************)
(* C35                                                                     *)
(***************************************************************************)
\* C35: in every reachable state the active pairing-key slot is -1 or the
\* index of one of the S_HI_PUB_NB_SLOTS slots, and it is an index exactly
\* when the secure-channel session is established
C35_SlotIffSession ==
    /\ pairing_key_slot \in {-1} \cup (0..(S_HI_PUB_NB_SLOTS - 1))
    /\ (pairing_key_slot # -1) <=> session.established

\* a handshake on slot 1 has just established a session from a state that
\* had one on another slot
C35_Witness ==
    /\ outcome.handler = "ts_l2_handshake"
    /\ outcome.kind = "return"
    /\ outcome.before \in 0..(S_HI_PUB_NB_SLOTS - 1)
    /\ outcome.before # 1
    /\ pairing_key_slot = 1
    /\ session.established

(***************************************************************************)
(* C34                                                                     *)
(***************************************************************************)
\* C34: the model rebuilt from the configuration dict of a model has the
\* same configuration dict (the same registers of r_config and i_config,
\* the same value in every pairing-key slot, the same encryption flag), and
\* starts with the session unestablished, the active slot -1, the command
\* buffer empty, no effective configuration cached and the transport idle,
\* whatever the session of the first model was
C34_SnapshotRoundTrip ==
    [][outcome'.op = "from_dict" =>
          /\ ToDict(Model)' = ToDict(Model)
          /\ session' = SessionReset
          /\ pairing_key_slot' = -1
          /\ command_buffer' = <<>>
          /\ ~config_cache'.cached
          /\ spi_fsm' = SpiFsmReset]_vars

\* a model with encryption disabled, whose session was established, whose
\* i_config has lost bits and whose blank slot has been written, has been
\* rebuilt
C34_Witness ==
    /\ outcome.op = "from_dict"
    /\ outcome.before # -1
    /\ ~session.established
    /\ ~activate_encryption
    /\ i_config # ConfigAllOnes
    /\ i_pairing_keys[2].kind = "SET"

(***************************************************************************)
(* Properties of the message fields                                      *)
(***************************************************************************)
\* the elements an assignment gives to the field, before the length check
ElementsGiven(c, params, fmt) ==
    CASE c.kind = "int" -> c.arg
      [] c.kind = "bytes" ->
           IF Len(c.arg) = params.dtype THEN <<UnpackOne(c.arg, fmt)>> ELSE c.arg
      [] OTHER -> c.arg

\* what a field holds: AUTO or the elements of its list
Stored(h, field) ==
    IF field.value = AUTO THEN [auto |-> TRUE, elements |-> <<>>]
    ELSE [auto |-> FALSE, elements |-> h[field.value]]

IsAssignment(c) == c.op = "set" /\ c.kind \in {"int", "bytes", "list"}

\* C31: an assignment of more than max_size elements raises ListTooLongError
\* and the field holds what it held; an assignment of at most max_size
\* elements returns, and the field then holds the elements given followed by
\* zeroes, max_size elements in all for a fixed-size field and min_size for a
\* variable-size field given fewer than min_size (the elements alone
\* otherwise), so that their number is within min_size .. max_size.
C31_AssignmentBounds ==
    [][IsAssignment(call') =>
          LET F(name, params, given) ==
                  IF Len(given) > params.max_size
                  THEN /\ call'.exc = "ListTooLongError"
                       /\ Stored(heap', fields'[name]) = Stored(heap, fields[name])
                  ELSE /\ call'.result = "return"
                       /\ ~Stored(heap', fields'[name]).auto
                       /\ LET stored == Stored(heap', fields'[name]).elements
                          IN  /\ Len(stored) =
                                    IF params.min_size = params.max_size
                                    THEN params.max_size
                                    ELSE IF Len(given) < params.min_size
                                         THEN params.min_size ELSE Len(given)
                              /\ \A i \in 1..Len(stored) :
                                     stored[i] = IF i <= Len(given) THEN given[i] ELSE 0
                              /\ Len(stored) >= params.min_size
                              /\ Len(stored) <= params.max_size
          IN  F(call'.field, fields[call'.field].params,
                ElementsGiven(call', fields[call'.field].params, Fmt(endianness)))]_vars

C31_Witness == IsAssignment(call) /\ call.field = "f" /\ call.kind = "list" /\ HasVariableSize(fields["f"].params) /\ call.arg = <<1>> /\ fields["f"].params.min_size = 2 /\ fields["f"].value = "a" /\ heap["a"] = <<1, 0>>

\* byte k (0 the lowest) of a non-negative x below 2^31
ByteOf(x, k) == IF k >= 4 THEN 0 ELSE (x \div (256 ^ k)) % 256

\* x is negative or at least 2^(8 * nb_bytes); the values of the explored
\* runs are below 2^31, so the second case arises for UINT8 and UINT16 only
OutOfRange(x, nb_bytes) == x < 0 \/ (nb_bytes < 4 /\ x >= 2 ^ (8 * nb_bytes))

\* C33: the byte order is little at first; to_bytes of a field holding n
\* elements of w bytes raises DataValueError when some element is negative
\* or at least 2^(8w), and otherwise returns n*w bytes, as many as
\* len(field), each element in the current byte order (lowest byte first
\* when little, highest first when big); an assignment of an out-of-range
\* integer returns and the field holds it.
C33_ToBytes ==
    /\ endianness = "little"
    /\ [][/\ (call'.op = "to_bytes" /\ ~Stored(heap', fields'[call'.field]).auto) =>
               LET F(field, value, w) ==
                       IF \E i \in 1..Len(value) : OutOfRange(value[i], w)
                       THEN call'.exc = "DataValueError"
                       ELSE /\ call'.result = "return"
                            /\ Len(call'.out) = Len(value) * w
                            /\ Len(call'.out) = DataFieldLen(heap', field)
                            /\ \A i \in 1..Len(value) : \A k \in 0..(w - 1) :
                                   call'.out[(i - 1) * w
                                             + (IF endianness' = "little"
                                                THEN k + 1 ELSE w - k)]
                                       = ByteOf(value[i], k)
               IN  F(fields'[call'.field],
                     Stored(heap', fields'[call'.field]).elements,
                     fields'[call'.field].params.dtype)
          /\ (call'.op = "set" /\ call'.kind = "int"
                  /\ OutOfRange(call'.arg[1], fields[call'.field].params.dtype)) =>
               /\ call'.result = "return"
               /\ Stored(heap', fields'[call'.field]).elements[1] = call'.arg[1]]_vars

C33_Witness == call.op = "to_bytes" /\ call.field = "f" /\ endianness = "big" /\ fields["f"].params = U16Array(2) /\ Stored(heap, fields["f"]).elements = <<7, 258>> /\ call.out = <<0, 7, 1, 2>>

\* the step assigns to field f the bytes its to_bytes has just returned, f
\* holding as many elements as it declares
IsRoundTrip ==
    /\ call.op = "to_bytes" /\ call.field = "f" /\ call.result = "return"
    /\ call'.op = "set" /\ call'.field = "f" /\ call'.kind = "bytes"
    /\ call'.arg = call.out
    /\ ~HasVariableSize(fields["f"].params)
    /\ Len(Stored(heap, fields["f"]).elements) = fields["f"].params.max_size

\* the assignment returns and the field holds the elements it held
Restored ==
    /\ call'.result = "return"
    /\ Stored(heap', fields'["f"]) = Stored(heap, fields["f"])

\* C32: for a field of a fixed element count, of any width and kind, holding
\* in-range elements x, assigning the bytes to_bytes returned gives the field
\* the elements x again; and an assignment of more elements than the field
\* declares raises ListTooLongError.
C32_RoundTrip ==
    [][/\ IsRoundTrip => Restored
       /\ (IsAssignment(call')
              /\ Len(ElementsGiven(call', fields[call'.field].params, Fmt(endianness)))
                    > fields[call'.field].params.max_size)
             => call'.exc = "ListTooLongError"]_vars

C32_Witness == call.op = "set" /\ call.kind = "bytes" /\ call.arg = <<7, 0, 2, 1>> /\ call.exc = "ListTooLongError" /\ fields["f"].params = U16Array(2) /\ Stored(heap, fields["f"]).elements = <<7, 258>> /\ endianness = "little"

\* C38: an assignment of a list that returns leaves the list object of the
\* caller as it was, gives the field the elements of the list followed by
\* the padding zeroes, and leaves what every other field holds unchanged,
\* including a field assigned from the same list before.
C38_NoSideEffect ==
    [][(call'.op = "set" /\ call'.kind = "list" /\ call'.result = "return") =>
          /\ heap'[call'.ref] = call'.arg
          /\ Stored(heap', fields'[call'.field]).elements
                 = Padded(call'.arg, MinLength(fields[call'.field].params))
          /\ \A other \in DOMAIN fields \ {call'.field} :
                 Stored(heap', fields'[other]) = Stored(heap, fields[other])]_vars

C38_Witness == call.op = "set" /\ call.kind = "list" /\ call.field = "g" /\ call.arg = <<1, 0>> /\ heap["a"] = <<1, 0, 0, 0>> /\ fields["f"].value = "a" /\ fields["g"].value = "a" /\ fields["f"].params = U8Array(2) /\ fields["g"].params = U8Array(4)

(***************************************************************************)
(* Properties of the model classes                                       *)
(***************************************************************************)
\* the class c has, in itself or inherited, a handler for the request type
HasHandler(c, request_type) ==
    \E name \in ApiOver(c) : AnnotatedType(name) = request_type

\* the handler the class c has for the request type
HandlerOf(c, request_type) ==
    GetAttr(c, CHOOSE name \in ApiOver(c) : AnnotatedType(name) = request_type)

\* C36: a request given to an instance of class c runs one method: the
\* handler that c has for the type of the request, which is a handler
\* annotated with that type, or, when c has no handler for the type, the
\* base method, which raises NotImplementedError.
C36_DispatchByType ==
    dispatched.op = "process_l2_request" =>
        IF HasHandler(dispatched.class, dispatched.request)
        THEN /\ dispatched.handler = HandlerOf(dispatched.class, dispatched.request)
             /\ AnnotatedType(dispatched.handler.name) = dispatched.request
        ELSE /\ dispatched.handler = BaseMethod
             /\ dispatched.exc = "NotImplementedError: not supported"

C36_Witness == dispatched.op = "process_l2_request" /\ dispatched.class = "A" /\ dispatched.request = "TsL2HandshakeRequest" /\ dispatched.handler = [cls |-> "C", name |-> "ts_l2_handshake"] /\ "B" \notin defined

\* C37: the creation of a model class leaves, for every class created
\* before that has a handler for a request type, the method that an instance
\* of that class runs for a request of the type as it was.
C37_RegistrationPerClass ==
    [][dispatched'.op = "class" =>
          \A a \in defined : \A t \in RequestTypes :
              HasHandler(a, t) => Dispatch(registry', t) = Dispatch(registry, t)]_vars

C37_Witness == dispatched.op = "process_l2_request" /\ dispatched.class = "A" /\ dispatched.request = "TsL2GetInfoRequest" /\ dispatched.handler = [cls |-> "B", name |-> "ts_l2_get_info"] /\ "C" \notin defined

=============================================================================
